---------------------------- MODULE Spec2Model ----------------------------
(***************************************************************************)
(* A model of the AT channel of jiandeng/attentive (the FreeRTOS port,     *)
(* at-freertos.c) and of the pieces of the modem drivers that use it.      *)
(*                                                                         *)
(* Tasks: the command-issuing contexts (Callers) that run at_command /     *)
(* at_command_raw, the reader task (at_reader_thread) and a controlling    *)
(* context that opens and closes the port behind the waiter's back.        *)
(*                                                                         *)
(* The four channel flags are adjacent one-bit bit-fields of one byte      *)
(* (struct at_freertos): a write to one of them is a load of the byte, a   *)
(* change of one bit, and a store of the byte.  Load and store are         *)
(* separate steps here, so a store can undo what another task stored in    *)
(* between.  SpecAtomic is the same program with every load/store pair     *)
(* executed without interruption.                                          *)
(***************************************************************************)
EXTENDS Integers, Sequences, FiniteSets, TLC

(***************************************************************************)
(* Bounds of the model and constants of the program.                       *)
(***************************************************************************)
MaxTimeout == 1
    \* largest value given to at_set_timeout
MaxSlices == MaxTimeout + 1
    \* cap on the wait slices followed for a negative timeout
AT_COMMAND_LENGTH == 80
AT_BUF_SIZE == 4
    \* the size of priv->response; its #define lies outside these sources,
    \* the model takes a small buffer
TimeoutValues == -1 .. MaxTimeout
FormatLengths == {AT_COMMAND_LENGTH - 2, AT_COMMAND_LENGTH - 1, AT_COMMAND_LENGTH}
    \* vsnprintf results offered to at_command: the longest that fits, the
    \* shortest that does not
DelayMs == {0}
    \* milliseconds given to at_set_delay
configTICK_RATE_HZ == 1000
Callers == {1, 2}
NoScanner == "null"
Scanners == {"scanner_cipstatus"}
NoUart == "NULL"
Uart == "uart"

VARIABLES
    flags,            \* running, open, busy, waiting: one byte of bit-fields
    xUART,            \* priv->xUART
    xSem,             \* the binary semaphore: 0 empty, 1 given
    timeout,          \* priv->timeout
    delay,            \* priv->delay
    command_scanner,  \* priv->at.command_scanner
    response,         \* priv->response: "" (zeroed) or a copied response
    pstate,           \* the parser's state
    pc,               \* each caller's position in at_command
    tmo,              \* each caller's local `timeout` of _at_command
    cld,              \* each caller's loaded flag byte (between load and store)
    rpc,              \* the reader's position
    rld,              \* the reader's loaded flag byte
    rch,              \* what the reader's last read returned
    fseen,            \* the parser state at_parser_feed found on entry
    kpc,              \* the controlling context's position
    kld,              \* its loaded flag byte
    retWhy,           \* history: how the command in progress returned
    wrote,            \* history: the command in progress wrote to the UART
    slept,            \* history: the command in progress slept the delay
    elapsed,          \* history: one-second slices that timed out
    hr,               \* history: handle_response during the command
    rborn,            \* history: when the handle_response in progress began
    closedAt,         \* history: when the open flag was cleared
    cbs,              \* priv->at.cbs
    line,             \* the line last handed to scan_line
    type,             \* what scan_line returned for it
    FEA_SIM800_BT,    \* the build: the SIM800 driver's Bluetooth feature
    urc,              \* the line the parser hands to handle_urc
    rwrote,           \* history: the reader task wrote to the UART
    cfg,              \* at_config: its position
    cargs,            \* at_config: option, value, attempts
    ci,               \* at_config: the loop counter i
    cret,             \* at_config: the value returned
    rtext,            \* at_config: the text of the probe's response
    clog,             \* history: what at_config did, in order
    flen,             \* history: the length at_command formatted, -1 for raw data
    sent,             \* history: the bytes the command wrote to the UART
    armed,            \* history: the command armed the parser
    wasOpen,          \* history: the port was open when the command was called
    spc,              \* at_send, at_send_raw, at_send_hex: the position
    skind,            \* which of the three is running
    sdata,            \* at_send_hex: the input bytes
    oset,             \* at_send_hex: the offset of the next chunk
    chunk,            \* the data _at_send is given to write
    swrites,          \* history: the writes made, in order
    sret,             \* the value returned
    sclosed,          \* history: the send found the port closed whenever it looked
    fpc,              \* at_free: its position
    flog,             \* history: the shutdown steps at_free has done, in order
    buf,              \* priv->response, cell by cell: "nul" or "byte"
    plen,             \* the length the parser passed to handle_response last
    over,             \* history: handle_response wrote outside priv->response
    track,            \* whether the history of deliveries below is recorded
    prevNull,         \* history: the command before this one returned null
    rprev,            \* history: the line the reader task is delivering was
                      \* received before the parser was armed last
    dprev,            \* history: waiting was last cleared for such a line
    dop,              \* the driver operation in progress
    dpc,              \* its position: the index of its next step
    dlog,             \* history: the outcome of each of its commands
    dst,              \* "idle", "run", "ret" or, the program having faulted, "fault"
    dret,             \* what it returned
    active,           \* m6315_pdp_open: int active
    modem,            \* struct cellular: pdp_failures, pdp_threshold
    mlog,             \* history: the last PDP operation, the closes since a success
    ops,              \* modem->ops: the driver cellular_alloc came from
    socks,            \* the driver's struct: socket_status[], spp_status
    slog,             \* history: the last socket operation and what it wrote
    recv,             \* the receive scanner's static reading, and the history of
                      \* the receive command in progress
    script,           \* the bytes the modem sends, in order
    spos,             \* how many of them the reader task has fed to the parser
    pst,              \* the parser: "Idle", "Await", "Prompt" or "Raw"
    lbuf,             \* the parser's line buffer
    rbuf,             \* the parser's response buffer
    left,             \* the raw bytes still to copy
    prompt,           \* the expected data prompt, <<>> for none
    urcs,             \* history: the lines passed to the driver's handle_urc
    lines,            \* history: the lines classified since the parser was armed
    resp              \* history: the responses passed to handle_response

chan == <<flags, xUART, xSem, timeout, delay, command_scanner, response, pstate>>
callerv == <<pc, tmo, cld>>
readerv == <<rpc, rld, rch, fseen>>
ctlv == <<kpc, kld>>
hist == <<retWhy, wrote, slept, elapsed, hr, rborn, closedAt>>
scanv == <<cbs, line, type>>
urcv == <<FEA_SIM800_BT, urc, rwrote>>
cfgv == <<cfg, cargs, ci, cret, rtext, clog>>
extv == <<urcv, cfgv>>
fmtv == <<flen, sent, armed, wasOpen>>
sendv == <<spc, skind, sdata, oset, chunk, swrites, sret, sclosed>>
freev == <<fpc, flog>>
bufv == <<buf, plen, over>>
notev == <<track, prevNull, rprev, dprev>>
modv == <<modem, mlog, ops, socks, slog, recv>>
drvv == <<dop, dpc, dlog, dst, dret, active, modv>>
parsv == <<script, spos, pst, lbuf, rbuf, left, prompt, urcs, lines, resp>>
vars == <<chan, callerv, readerv, ctlv, hist, scanv, extv, fmtv, sendv, freev, bufv, notev, drvv,
          parsv>>

Flags == [running : BOOLEAN, open : BOOLEAN, busy : BOOLEAN, waiting : BOOLEAN]
NoLoad == [running |-> FALSE, open |-> FALSE, busy |-> FALSE, waiting |-> FALSE]

(***************************************************************************)
(* at_alloc_freertos: memset(priv, 0), running = true, an empty binary     *)
(* semaphore, the reader task created.                                     *)
(***************************************************************************)
at_alloc_freertos ==
    /\ flags = [running |-> TRUE, open |-> FALSE, busy |-> FALSE, waiting |-> FALSE]
    /\ xUART = NoUart
    /\ xSem = 0
    /\ timeout = 0
    /\ delay = 0
    /\ command_scanner = NoScanner
    /\ response = ""
    /\ pstate = "Idle"
    /\ pc = [c \in Callers |-> "idle"]
    /\ tmo = [c \in Callers |-> 0]
    /\ cld = [c \in Callers |-> NoLoad]
    /\ rpc = "top"
    /\ rld = NoLoad
    /\ rch = "none"
    /\ fseen = "Idle"
    /\ kpc = "idle"
    /\ kld = NoLoad

HistInit ==
    /\ retWhy = "none"
    /\ wrote = FALSE
    /\ slept = FALSE
    /\ elapsed = 0
    /\ hr = "none"
    /\ rborn = "none"
    /\ closedAt = "no"

ScanInit ==
    /\ cbs = "NULL"
    /\ line = <<>>
    /\ type = "AT_RESPONSE_UNKNOWN"

UrcInit ==
    /\ urc = <<>>
    /\ rwrote = FALSE

NoArgs == [option |-> <<>>, value |-> <<>>, attempts |-> 0]

ConfigInit ==
    /\ cfg = "idle"
    /\ cargs = NoArgs
    /\ ci = 0
    /\ cret = 0
    /\ rtext = <<>>
    /\ clog = <<>>

FormatInit ==
    /\ flen = -1
    /\ sent = <<>>
    /\ armed = FALSE
    /\ wasOpen = FALSE

SendInit ==
    /\ spc = "idle"
    /\ skind = "none"
    /\ sdata = <<>>
    /\ oset = 0
    /\ chunk = <<>>
    /\ swrites = <<>>
    /\ sret = FALSE
    /\ sclosed = FALSE

\* memset(priv, 0, sizeof(struct at_freertos)): the buffer starts all NUL.
BufInit ==
    /\ buf = [i \in 0 .. AT_BUF_SIZE - 1 |-> "nul"]
    /\ plen = 0
    /\ over = FALSE

FreeInit ==
    /\ fpc = "none"
    /\ flog = <<>>

\* at_parser_alloc: the parser starts idle with empty buffers.
ParserInit ==
    /\ spos = 0
    /\ pst = "Idle"
    /\ lbuf = <<>>
    /\ rbuf = <<>>
    /\ left = 0
    /\ prompt = <<>>
    /\ urcs = <<>>
    /\ lines = <<>>
    /\ resp = <<>>

\* No PDP operation yet, no cellular_pdp_success yet.
NoPdp == [op |-> "none", open |-> "none", closed |-> FALSE, ret |-> 0,
          since |-> FALSE, closes |-> <<>>]

SIM800_NSOCKETS == 6
M6315_NSOCKETS == 8
SARA_NSOCKETS == 7
NSOCKETS(d) == IF d = "sim800" THEN SIM800_NSOCKETS
               ELSE IF d = "m6315" THEN M6315_NSOCKETS
               ELSE SARA_NSOCKETS

\* enum sim800_socket_status, enum m6315_socket_status, enum socket_status
SOCKET_STATUS_ERROR == -1
SOCKET_STATUS_UNKNOWN == 0
SOCKET_STATUS_CONNECTED == 1

\* No socket operation yet.
NoSock == [op |-> "none", k |-> -1, ret |-> 0]

\* cellular_alloc of driver d: its static struct, zeroed.
cellular_alloc(d) ==
    [socket_status |-> [k \in 0 .. NSOCKETS(d) - 1 |-> SOCKET_STATUS_UNKNOWN],
     spp_status |-> SOCKET_STATUS_UNKNOWN]

SockInit(d) ==
    /\ ops = d
    /\ socks = cellular_alloc(d)
    /\ slog = NoSock

\* The receive scanner of driver d before its first line: static bool
\* reading = false, no receive command yet.
RecvInit(d) ==
    recv = [drv |-> d, reading |-> FALSE, pc |-> "idle", hdr |-> FALSE,
            type |-> "none", line |-> <<>>, n |-> 0]

DriverInit ==
    /\ dop = "none"
    /\ dpc = 0
    /\ dlog = <<>>
    /\ dst = "idle"
    /\ dret = 0
    /\ active = 0
    /\ modem = [pdp_failures |-> 0, pdp_threshold |-> 0]
    /\ mlog = NoPdp

NoteInit ==
    /\ prevNull = FALSE
    /\ rprev = FALSE
    /\ dprev = FALSE

InitCore ==
    /\ at_alloc_freertos /\ HistInit /\ ScanInit /\ UrcInit /\ ConfigInit
    /\ FormatInit /\ SendInit /\ FreeInit /\ BufInit /\ NoteInit
    /\ DriverInit /\ ParserInit

\* The channel with the SIM800 driver.
InitBase == InitCore /\ SockInit("sim800") /\ RecvInit("sim7020")

Init == InitBase /\ FEA_SIM800_BT = FALSE /\ track = FALSE /\ script = <<>>

Crashed ==
    \/ rpc = "fault" \/ kpc = "fault" \/ spc = "fault"
    \/ \E c \in Callers : pc[c] = "fault"

InFlight(c) == pc[c] \notin {"idle", "ret", "fault"}
Waiting(c) == pc[c] \in {"loop", "take"}
AnyInFlight == \E c \in Callers : InFlight(c)
AnyWaiting == \E c \in Callers : Waiting(c)

\* The waiter has written the command and still has wait budget left.
InBudget(c) ==
    /\ timeout > 0
    /\ \/ pc[c] \in {"w_ld", "w_st", "clr"}
       \/ pc[c] = "loop" /\ tmo[c] > 0
       \/ pc[c] = "take"

\* History of the open flag, kept by every step that stores the flag byte:
\* "wait" once the flag is cleared while the waiter is in its wait loop and
\* at_open has not set it again, "other" for a flag cleared at another
\* moment of the command or set again by at_open.
NoteFlags(f) ==
    /\ closedAt' = IF closedAt = "no" /\ AnyInFlight /\ ~f.open
                   THEN (IF AnyWaiting THEN "wait" ELSE "other")
                   ELSE closedAt

(***************************************************************************)
(* The command-issuing context.                                            *)
(***************************************************************************)
pdMS_TO_TICKS(ms) == (ms * configTICK_RATE_HZ) \div 1000

at_set_timeout(c, t) ==
    /\ ~Crashed /\ pc[c] = "idle"
    /\ timeout' = t
    /\ UNCHANGED <<flags, xUART, xSem, delay, command_scanner, response, pstate>>
    /\ UNCHANGED <<callerv, readerv, ctlv, scanv, extv, sendv, freev, bufv, notev, drvv, parsv, fmtv, hist>>

at_set_delay(c, ms) ==
    /\ ~Crashed /\ pc[c] = "idle"
    /\ delay' = pdMS_TO_TICKS(ms) + 1
    /\ UNCHANGED <<flags, xUART, xSem, timeout, command_scanner, response, pstate>>
    /\ UNCHANGED <<callerv, readerv, ctlv, scanv, extv, sendv, freev, bufv, notev, drvv, parsv, fmtv, hist>>

at_set_command_scanner(c, s) ==
    /\ ~Crashed /\ pc[c] = "idle"
    /\ command_scanner' = s
    /\ UNCHANGED <<flags, xUART, xSem, timeout, delay, response, pstate>>
    /\ UNCHANGED <<callerv, readerv, ctlv, scanv, extv, sendv, freev, bufv, notev, drvv, parsv, fmtv, hist>>

\* A return of _at_command or at_command before anything was done.
ReturnEarly(c, why) ==
    /\ pc' = [pc EXCEPT ![c] = "ret"]
    /\ retWhy' = why
    /\ UNCHANGED <<chan, tmo, cld, readerv, ctlv, scanv, extv, sendv, freev, bufv, notev, drvv, parsv>>
    /\ UNCHANGED <<wrote, slept, elapsed, hr, rborn, closedAt>>

\* _at_command without the open check of lines 259-262.
at_command_entry_unchecked(c) ==
    /\ pc' = [pc EXCEPT ![c] = "arm"]
    /\ slept' = (delay # 0)
    /\ UNCHANGED <<chan, tmo, cld, readerv, ctlv, scanv, extv, sendv, freev, bufv, notev, drvv, parsv>>
    /\ UNCHANGED <<retWhy, wrote, elapsed, hr, rborn, closedAt>>

\* _at_command, lines 258-267: the open check and the inter-command delay.
at_command_entry(c) ==
    IF ~flags.open
    THEN ReturnEarly(c, "closed_entry")
    ELSE /\ pc' = [pc EXCEPT ![c] = "arm"]
         /\ slept' = (delay # 0)
         /\ UNCHANGED <<chan, tmo, cld, readerv, ctlv, scanv, extv, sendv, freev, bufv, notev, drvv, parsv>>
         /\ UNCHANGED <<retWhy, wrote, elapsed, hr, rborn, closedAt>>

\* The text vsnprintf formats, of the given length, and the data of a raw
\* command.
Text(len) == [i \in 1 .. len |-> "A"]
RawData == <<"d">>

\* What _at_command is given to write: the line with the '\r' that
\* line[len++] = '\r' appends, or the raw data.
CommandData(len) == IF len < 0 THEN RawData ELSE Text(len) \o <<"\r">>

\* at_command: format the line; a line that does not fit returns NULL.
at_command(c, len) ==
    /\ ~Crashed /\ pc[c] = "idle"
    /\ flen' = len
    /\ wasOpen' = flags.open
    /\ UNCHANGED <<sent, armed>>
    /\ IF len >= AT_COMMAND_LENGTH - 1
       THEN ReturnEarly(c, "overlong")
       ELSE at_command_entry(c)

at_command_raw(c) ==
    /\ ~Crashed /\ pc[c] = "idle"
    /\ flen' = -1
    /\ wasOpen' = flags.open
    /\ UNCHANGED <<sent, armed>>
    /\ at_command_entry(c)

\* The reader task is inside at_parser_feed with the byte that ends a
\* response, or inside the handle_response this led to.
Delivering ==
    \/ rpc = "feed_mid" /\ fseen = "Await" /\ rch = "final"
    \/ rpc \in {"hr_copy", "hr_nul", "hr_st", "hr_give"}

\* at_parser_await_response: clear the response buffer and await a
\* response, or the data prompt when one is expected; raw data still to be
\* copied is given up.
at_parser_await_response ==
    /\ rbuf' = <<>>
    /\ left' = 0
    /\ pst' = IF prompt # <<>> THEN "Prompt" ELSE "Await"
    /\ lines' = <<>>
    /\ UNCHANGED <<script, spos, lbuf, prompt, urcs, resp>>

\* at_parser_reset: back to idle, the line buffer and the expected prompt
\* cleared, the response buffer left as it is.
at_parser_reset ==
    /\ pst' = "Idle"
    /\ lbuf' = <<>>
    /\ left' = 0
    /\ prompt' = <<>>
    /\ UNCHANGED <<script, spos, rbuf, urcs, lines, resp>>

\* at_parser_await_response(priv->at.parser)
at_command_arm(c) ==
    /\ ~Crashed /\ pc[c] = "arm"
    /\ pstate' = "Await"
    /\ at_parser_await_response
    /\ armed' = TRUE
    /\ pc' = [pc EXCEPT ![c] = "write"]
    /\ rprev' = (track /\ Delivering)
    /\ dprev' = FALSE
    /\ UNCHANGED <<flags, xUART, xSem, timeout, delay, command_scanner, response>>
    /\ UNCHANGED <<tmo, cld, readerv, ctlv, scanv, extv, sendv, freev, bufv, flen, sent, wasOpen, hist>>
    /\ UNCHANGED <<track, prevNull, drvv>>

\* priv->xUART->ops->write(priv->xUART, data, size).  With xUART NULL (the
\* port was closed after the open check) this dereferences a null pointer:
\* the write does nothing, or the program faults.
at_command_write(c) ==
    /\ ~Crashed /\ pc[c] = "write"
    /\ \/ pc' = [pc EXCEPT ![c] = "w_ld"]
       \/ xUART = NoUart /\ pc' = [pc EXCEPT ![c] = "fault"]
    /\ wrote' = TRUE
    /\ sent' = CommandData(flen)
    /\ UNCHANGED <<chan, tmo, cld, readerv, ctlv, scanv, extv, sendv, freev, bufv, notev, drvv, parsv, flen, armed, wasOpen>>
    /\ UNCHANGED <<retWhy, slept, elapsed, hr, rborn, closedAt>>

\* priv->waiting = true: the load of the flag byte ...
at_command_waiting_load(c) ==
    /\ ~Crashed /\ pc[c] = "w_ld"
    /\ cld' = [cld EXCEPT ![c] = flags]
    /\ pc' = [pc EXCEPT ![c] = "w_st"]
    /\ UNCHANGED <<chan, tmo, readerv, ctlv, scanv, extv, sendv, freev, bufv, notev, drvv, parsv, fmtv, hist>>

SetWaiting(f) == [f EXCEPT !.waiting = TRUE]

\* ... and its store.
at_command_waiting_store(c) ==
    /\ ~Crashed /\ pc[c] = "w_st"
    /\ flags' = SetWaiting(cld[c])
    /\ cld' = [cld EXCEPT ![c] = NoLoad]
    /\ pc' = [pc EXCEPT ![c] = "clr"]
    /\ NoteFlags(flags')
    /\ UNCHANGED <<xUART, xSem, timeout, delay, command_scanner, response, pstate>>
    /\ UNCHANGED <<tmo, readerv, ctlv, scanv, extv, sendv, freev, bufv, notev, drvv, parsv, fmtv>>
    /\ UNCHANGED <<retWhy, wrote, slept, elapsed, hr, rborn>>

\* xSemaphoreTake(priv->xSem, 0); int timeout = priv->timeout;
at_command_clear_signal(c) ==
    /\ ~Crashed /\ pc[c] = "clr"
    /\ xSem' = 0
    /\ tmo' = [tmo EXCEPT ![c] = timeout]
    /\ pc' = [pc EXCEPT ![c] = "loop"]
    /\ UNCHANGED <<flags, xUART, timeout, delay, command_scanner, response, pstate>>
    /\ UNCHANGED <<cld, readerv, ctlv, scanv, extv, sendv, freev, bufv, notev, drvv, parsv, fmtv, hist>>

\* The loop condition: timeout-- && priv->open && priv->waiting
LoopCondition(t, f) == t # 0 /\ f.open /\ f.waiting

at_command_loop(c) ==
    /\ ~Crashed /\ pc[c] = "loop"
    /\ IF LoopCondition(tmo[c], flags)
       THEN /\ pc' = [pc EXCEPT ![c] = "take"]
            /\ tmo' = [tmo EXCEPT ![c] = tmo[c] - 1]
       ELSE /\ pc' = [pc EXCEPT ![c] = "chk_open"]
            /\ tmo' = [tmo EXCEPT ![c] = 0]
    /\ UNCHANGED <<chan, cld, readerv, ctlv, scanv, extv, sendv, freev, bufv, notev, drvv, parsv, fmtv, hist>>

\* xSemaphoreTake(priv->xSem, pdMS_TO_TICKS(1000)) returns true: break.
at_command_take_signalled(c) ==
    /\ ~Crashed /\ pc[c] = "take"
    /\ xSem = 1
    /\ xSem' = 0
    /\ pc' = [pc EXCEPT ![c] = "chk_open"]
    /\ tmo' = [tmo EXCEPT ![c] = 0]
    /\ UNCHANGED <<flags, xUART, timeout, delay, command_scanner, response, pstate>>
    /\ UNCHANGED <<cld, readerv, ctlv, scanv, extv, sendv, freev, bufv, notev, drvv, parsv, fmtv, hist>>

\* ... returns false after one second without a give.
at_command_take_timeout(c) ==
    /\ ~Crashed /\ pc[c] = "take"
    /\ xSem = 0
    /\ elapsed < MaxSlices
    /\ elapsed' = elapsed + 1
    /\ pc' = [pc EXCEPT ![c] = "loop"]
    /\ UNCHANGED <<chan, tmo, cld, readerv, ctlv, scanv, extv, sendv, freev, bufv, notev, drvv, parsv, fmtv>>
    /\ UNCHANGED <<retWhy, wrote, slept, hr, rborn, closedAt>>

\* if (!priv->open) result = NULL; ... priv->at.command_scanner = NULL;
at_command_check_open(c) ==
    /\ ~Crashed /\ pc[c] = "chk_open"
    /\ IF ~flags.open
       THEN /\ pc' = [pc EXCEPT ![c] = "ret"]
            /\ retWhy' = "closed_check"
            /\ command_scanner' = NoScanner
       ELSE /\ pc' = [pc EXCEPT ![c] = "chk_wait"]
            /\ UNCHANGED <<retWhy, command_scanner>>
    /\ UNCHANGED <<flags, xUART, xSem, timeout, delay, response, pstate>>
    /\ UNCHANGED <<tmo, cld, readerv, ctlv, scanv, extv, sendv, freev, bufv, notev, drvv, parsv, fmtv>>
    /\ UNCHANGED <<wrote, slept, elapsed, hr, rborn, closedAt>>

\* else if (priv->waiting) ... else result = priv->response;
at_command_check_waiting(c) ==
    /\ ~Crashed /\ pc[c] = "chk_wait"
    /\ IF flags.waiting
       THEN /\ pc' = [pc EXCEPT ![c] = "reset"]
            /\ UNCHANGED <<retWhy, command_scanner>>
       ELSE /\ pc' = [pc EXCEPT ![c] = "ret"]
            /\ retWhy' = "response"
            /\ command_scanner' = NoScanner
    /\ UNCHANGED <<flags, xUART, xSem, timeout, delay, response, pstate>>
    /\ UNCHANGED <<tmo, cld, readerv, ctlv, scanv, extv, sendv, freev, bufv, notev, drvv, parsv, fmtv>>
    /\ UNCHANGED <<wrote, slept, elapsed, hr, rborn, closedAt>>

\* at_parser_reset(priv->at.parser); result = NULL; command_scanner = NULL;
at_command_timed_out(c) ==
    /\ ~Crashed /\ pc[c] = "reset"
    /\ pstate' = "Idle"
    /\ at_parser_reset
    /\ command_scanner' = NoScanner
    /\ pc' = [pc EXCEPT ![c] = "ret"]
    /\ retWhy' = "timeout"
    /\ UNCHANGED <<flags, xUART, xSem, timeout, delay, response>>
    /\ UNCHANGED <<tmo, cld, readerv, ctlv, scanv, extv, sendv, freev, bufv, notev, drvv, fmtv>>
    /\ UNCHANGED <<wrote, slept, elapsed, hr, rborn, closedAt>>

\* The caller has its result; the history of the command ends.
at_command_return(c) ==
    /\ ~Crashed /\ pc[c] = "ret"
    /\ pc' = [pc EXCEPT ![c] = "idle"]
    /\ retWhy' = "none"
    /\ wrote' = FALSE
    /\ slept' = FALSE
    /\ elapsed' = 0
    /\ hr' = "none"
    /\ closedAt' = "no"
    /\ flen' = -1 /\ sent' = <<>> /\ armed' = FALSE /\ wasOpen' = FALSE
    /\ rborn' = IF rpc \in {"hr_nul", "hr_st", "hr_give"} THEN "old" ELSE rborn
    /\ prevNull' = (track /\ retWhy # "response")
    /\ UNCHANGED <<chan, tmo, cld, readerv, ctlv, scanv, extv, sendv, freev, bufv>>
    /\ UNCHANGED <<track, rprev, dprev, drvv, parsv>>

(***************************************************************************)
(* The reader task, at_reader_thread, and the parser callback it reaches.  *)
(***************************************************************************)
ReadResults == {"none", "final"}
    \* read returned 0, or 1 with a byte: the parser is modelled at the
    \* bytes that end a line it classifies as final, the only ones that
    \* make it call handle_response

\* if (!priv->running) / else if (!priv->open): vTaskDelay and continue.
at_reader_thread_wait ==
    /\ ~Crashed /\ rpc = "top"
    /\ ~(flags.running /\ flags.open)
    /\ UNCHANGED vars

\* Both flags set: priv->busy = true, the load of the flag byte ...
at_reader_thread_busy_load ==
    /\ ~Crashed /\ rpc = "top"
    /\ flags.running /\ flags.open
    /\ rld' = flags
    /\ rpc' = "busy_st"
    /\ UNCHANGED <<chan, callerv, rch, fseen, ctlv, scanv, extv, sendv, freev, bufv, notev, drvv, parsv, fmtv, hist>>

SetBusy(f, b) == [f EXCEPT !.busy = b]

\* ... and its store.
at_reader_thread_busy_store ==
    /\ ~Crashed /\ rpc = "busy_st"
    /\ flags' = SetBusy(rld, TRUE)
    /\ rld' = NoLoad
    /\ rpc' = "read"
    /\ NoteFlags(flags')
    /\ UNCHANGED <<xUART, xSem, timeout, delay, command_scanner, response, pstate>>
    /\ UNCHANGED <<callerv, rch, fseen, ctlv, scanv, extv, sendv, freev, bufv, notev, drvv, parsv, fmtv>>
    /\ UNCHANGED <<retWhy, wrote, slept, elapsed, hr, rborn>>

\* priv->xUART->ops->read(priv->xUART, &ch, 1), then the load of the flag
\* byte for priv->busy = false.  With xUART NULL (at_close ran after the
\* open check) the read dereferences a null pointer: it returns nothing,
\* or the program faults.
at_reader_thread_read ==
    /\ ~Crashed /\ rpc = "read"
    /\ \/ /\ xUART # NoUart
          /\ rch' \in ReadResults
          /\ rpc' = "unbusy_st"
          /\ rld' = flags
       \/ /\ xUART = NoUart
          /\ rch' = "none"
          /\ \/ rpc' = "unbusy_st" /\ rld' = flags
             \/ rpc' = "fault" /\ rld' = rld
    /\ UNCHANGED <<chan, callerv, fseen, ctlv, scanv, extv, sendv, freev, bufv, notev, drvv, parsv, fmtv, hist>>

\* The store of priv->busy = false; if (result == 1) at_parser_feed(...).
at_reader_thread_busy_clear ==
    /\ ~Crashed /\ rpc = "unbusy_st"
    /\ flags' = SetBusy(rld, FALSE)
    /\ rld' = NoLoad
    /\ rpc' = IF rch = "none" THEN "top" ELSE "feed_call"
    /\ NoteFlags(flags')
    /\ UNCHANGED <<xUART, xSem, timeout, delay, command_scanner, response, pstate>>
    /\ UNCHANGED <<callerv, rch, fseen, ctlv, scanv, extv, sendv, freev, bufv, notev, drvv, parsv, fmtv>>
    /\ UNCHANGED <<retWhy, wrote, slept, elapsed, hr, rborn>>

\* at_parser_feed enters and reads the parser state.
at_parser_feed_begin ==
    /\ ~Crashed /\ rpc = "feed_call"
    /\ fseen' = pstate
    /\ rpc' = "feed_mid"
    /\ rprev' = FALSE
    /\ UNCHANGED <<chan, callerv, rld, rch, ctlv, scanv, extv, sendv, freev, bufv, fmtv, hist>>
    /\ UNCHANGED <<track, prevNull, dprev, drvv, parsv>>

\* at_parser_feed handles the byte: the byte that ends a final line while
\* a response is awaited takes the parser to Idle and calls
\* handle_response; any other byte is consumed.
\* The response passed to handle_response has len bytes.
at_parser_feed_response(len) ==
    /\ ~Crashed /\ rpc = "feed_mid" /\ rch # "urc"
    /\ IF fseen = "Await" /\ rch = "final"
       THEN pstate' = "Idle" /\ rpc' = "hr_copy" /\ plen' = len /\ at_parser_reset
       ELSE pstate' = pstate /\ rpc' = "top" /\ plen' = plen /\ UNCHANGED parsv
    /\ rch' = "none"
    /\ fseen' = "Idle"
    /\ UNCHANGED <<flags, xUART, xSem, timeout, delay, command_scanner, response>>
    /\ UNCHANGED <<callerv, rld, ctlv, scanv, extv, sendv, freev, buf, over, fmtv, hist, notev, drvv>>

\* A response that fits the buffer.
ShortResponse == <<"O", "K">>

at_parser_feed_end == at_parser_feed_response(Len(ShortResponse))

\* The same step for a response of any length, up to more than the buffer
\* takes.
ResponseLengths == 0 .. AT_BUF_SIZE + 1

at_parser_feed_any == \E len \in ResponseLengths : at_parser_feed_response(len)

\* The history of handle_response during a command: "fresh" when it began
\* after the command was written and ended with wait budget left, the port
\* open all along; "stale" when it began during the command otherwise;
\* "old" when only a handle_response that began before the command was
\* called ran during it.
HrRank(h) == CASE h = "none" -> 0 [] h = "old" -> 1 [] h = "stale" -> 2 [] h = "fresh" -> 3
NoteHr(h) == IF AnyInFlight /\ HrRank(h) > HrRank(hr) THEN h ELSE hr
Born == IF (\E c \in Callers : InBudget(c)) /\ closedAt = "no" THEN "fresh"
        ELSE IF AnyInFlight THEN "stale" ELSE "old"

\* handle_response: memcpy(priv->response, buf, len); response[len] = 0;
\* then the load of the flag byte for priv->waiting = false ...
\* len = len < AT_BUF_SIZE - 1 ? len : AT_BUF_SIZE - 1
ClampNone(len) == len

Clamp(len) == IF len < AT_BUF_SIZE - 1 THEN len ELSE AT_BUF_SIZE - 1

\* memcpy(priv->response, buf, n): the cells it writes inside the buffer.
Memcpy(b, n) == [i \in DOMAIN b |-> IF i < n THEN "byte" ELSE b[i]]

\* priv->response[n] = '\0'
StoreNul(b, n) == [i \in DOMAIN b |-> IF i = n THEN "nul" ELSE b[i]]

\* handle_response: the clamp and the memcpy ...
handle_response_copy ==
    /\ ~Crashed /\ rpc = "hr_copy"
    /\ response' = "resp"
    /\ buf' = Memcpy(buf, Clamp(plen))
    /\ over' = (over \/ Clamp(plen) > AT_BUF_SIZE)
    /\ rpc' = "hr_nul"
    /\ rborn' = Born
    /\ hr' = NoteHr(IF rborn' = "old" THEN "old" ELSE "stale")
    /\ UNCHANGED <<flags, xUART, xSem, timeout, delay, command_scanner, pstate>>
    /\ UNCHANGED <<callerv, rld, rch, fseen, ctlv, scanv, extv, sendv, freev, plen, fmtv, notev, drvv, parsv>>
    /\ UNCHANGED <<retWhy, wrote, slept, elapsed, closedAt>>

\* ... the terminating NUL, and the load of the flag byte for
\* priv->waiting = false ...
handle_response_nul ==
    /\ ~Crashed /\ rpc = "hr_nul"
    /\ buf' = StoreNul(buf, Clamp(plen))
    /\ over' = (over \/ Clamp(plen) > AT_BUF_SIZE - 1)
    /\ rld' = flags
    /\ rpc' = "hr_st"
    /\ UNCHANGED <<chan, callerv, rch, fseen, ctlv, scanv, extv, sendv, freev, plen, fmtv, hist, notev, drvv, parsv>>

ClearWaiting(f) == [f EXCEPT !.waiting = FALSE]

\* ... its store ...
handle_response_waiting ==
    /\ ~Crashed /\ rpc = "hr_st"
    /\ flags' = ClearWaiting(rld)
    /\ rld' = NoLoad
    /\ rpc' = "hr_give"
    /\ hr' = NoteHr(IF rborn = "old" THEN "old" ELSE "stale")
    /\ NoteFlags(flags')
    /\ UNCHANGED <<xUART, xSem, timeout, delay, command_scanner, response, pstate>>
    /\ dprev' = rprev
    /\ UNCHANGED <<callerv, rch, fseen, ctlv, scanv, extv, sendv, freev, bufv, fmtv>>
    /\ UNCHANGED <<retWhy, wrote, slept, elapsed, rborn, track, prevNull, rprev, drvv, parsv>>

\* ... and xSemaphoreGive(priv->xSem).
handle_response_give ==
    /\ ~Crashed /\ rpc = "hr_give"
    /\ xSem' = 1
    /\ rpc' = "top"
    /\ hr' = NoteHr(IF rborn = "old" THEN "old"
                    ELSE IF rborn = "fresh" /\ Born = "fresh" THEN "fresh"
                    ELSE "stale")
    /\ rborn' = "none"
    /\ UNCHANGED <<flags, xUART, timeout, delay, command_scanner, response, pstate>>
    /\ UNCHANGED <<callerv, rld, rch, fseen, ctlv, scanv, extv, sendv, freev, bufv, notev, drvv, parsv, fmtv>>
    /\ UNCHANGED <<retWhy, wrote, slept, elapsed, closedAt>>

(***************************************************************************)
(* The context that opens and closes the port.                             *)
(***************************************************************************)
\* at_open: priv->xUART = hal_uart_get_instance(...); NULL returns -1;
\* otherwise init, and the load of the flag byte for priv->open = true.
at_open ==
    /\ ~Crashed /\ kpc = "idle"
    /\ \/ /\ xUART' = NoUart
          /\ UNCHANGED <<kpc, kld>>
       \/ /\ xUART' = Uart
          /\ kld' = flags
          /\ kpc' = "open_st"
    /\ UNCHANGED <<flags, xSem, timeout, delay, command_scanner, response, pstate>>
    /\ UNCHANGED <<callerv, readerv, hist, scanv, extv, sendv, freev, bufv, notev, drvv, parsv, fmtv>>

SetOpen(f, b) == [f EXCEPT !.open = b]

\* The store of priv->open = true; xSemaphoreTake(priv->xSem, 0); return 0.
at_open_store ==
    /\ ~Crashed /\ kpc = "open_st"
    /\ flags' = SetOpen(kld, TRUE)
    /\ xSem' = 0
    /\ kld' = NoLoad
    /\ kpc' = "idle"
    /\ closedAt' = IF closedAt = "wait" THEN "other" ELSE closedAt
    /\ UNCHANGED <<xUART, timeout, delay, command_scanner, response, pstate>>
    /\ UNCHANGED <<callerv, readerv, scanv, extv, sendv, freev, bufv, notev, drvv, parsv, fmtv>>
    /\ UNCHANGED <<retWhy, wrote, slept, elapsed, hr, rborn>>

\* at_close: the load of the flag byte for priv->open = false ...
at_close ==
    /\ ~Crashed /\ kpc = "idle"
    /\ kld' = flags
    /\ kpc' = "close_st"
    /\ UNCHANGED <<chan, callerv, readerv, hist, scanv, extv, sendv, freev, bufv, notev, drvv, parsv, fmtv>>

\* ... and its store.
at_close_store ==
    /\ ~Crashed /\ kpc = "close_st"
    /\ flags' = SetOpen(kld, FALSE)
    /\ kld' = NoLoad
    /\ kpc' = "close_rel"
    /\ NoteFlags(flags')
    /\ UNCHANGED <<xUART, xSem, timeout, delay, command_scanner, response, pstate>>
    /\ UNCHANGED <<callerv, readerv, scanv, extv, sendv, freev, bufv, notev, drvv, parsv, fmtv>>
    /\ UNCHANGED <<retWhy, wrote, slept, elapsed, hr, rborn>>

\* priv->xUART->ops->deinit(priv->xUART); priv->xUART = NULL; return 0.
\* With xUART already NULL the deinit dereferences a null pointer: it does
\* nothing, or the program faults.
at_close_release ==
    /\ ~Crashed /\ kpc = "close_rel"
    /\ \/ xUART' = NoUart /\ kpc' = "idle"
       \/ xUART = NoUart /\ xUART' = NoUart /\ kpc' = "fault"
    /\ UNCHANGED <<flags, xSem, timeout, delay, command_scanner, response, pstate>>
    /\ UNCHANGED <<callerv, readerv, kld, hist, scanv, extv, sendv, freev, bufv, notev, drvv, parsv, fmtv>>

(***************************************************************************)
(* Line scanning.  A line is a sequence of characters; strcmp and strncmp  *)
(* compare them as the C library does.                                     *)
(***************************************************************************)
\* enum at_response_type; AT_RESPONSE_UNKNOWN is the zero value that
\* `!type` tests.
AT_RESPONSE_UNKNOWN == "AT_RESPONSE_UNKNOWN"
AT_RESPONSE_INTERMEDIATE == "AT_RESPONSE_INTERMEDIATE"
AT_RESPONSE_FINAL == "AT_RESPONSE_FINAL"
AT_RESPONSE_URC == "AT_RESPONSE_URC"

\* !strcmp(a, b)
StrEq(a, b) == a = b

\* !strncmp(a, b, n): equal over the first n characters, or up to the end
\* of both when they end earlier.
StrnEq(a, b, n) ==
    /\ \A i \in 1 .. n : (i <= Len(a) /\ i <= Len(b)) => a[i] = b[i]
    /\ (Len(a) < n \/ Len(b) < n) => Len(a) = Len(b)

\* line + k
StrFrom(a, k) == IF k >= Len(a) THEN <<>> ELSE SubSeq(a, k + 1, Len(a))

\* at_prefix_in_table(line, table): some entry of the table is a prefix of
\* the line.
at_prefix_in_table(l, table) == \E e \in table : StrnEq(l, e, Len(e))

sim800_urc_responses == {
    <<"+", "C", "I", "P", "R", "X", "G", "E", "T", ":", " ", "1", ",">>,
    <<"+", "P", "D", "P", ":", " ", "D", "E", "A", "C", "T">>,
    <<"+", "S", "A", "P", "B", "R", " ", "1", ":", " ", "D", "E", "A", "C", "T">>,
    <<"*", "P", "S", "N", "W", "I", "D", ":", " ">>,
    <<"*", "P", "S", "U", "T", "T", "Z", ":", " ">>,
    <<"+", "C", "T", "Z", "V", ":", " ">>,
    <<"D", "S", "T", ":", " ">>,
    <<"+", "C", "I", "E", "V", ":", " ">>,
    <<"R", "D", "Y">>,
    <<"+", "C", "F", "U", "N", ":">>,
    <<"+", "C", "P", "I", "N", ":">>,
    <<"C", "a", "l", "l", " ", "R", "e", "a", "d", "y">>,
    <<"S", "M", "S", " ", "R", "e", "a", "d", "y">>,
    <<"U", "N", "D", "E", "R", "-", "V", "O", "L", "T">>,
    <<"O", "V", "E", "R", "-", "V", "O", "L", "T">>,
    <<"O", "p", "e", "r", "a", "t", "o", "r">>}

Digits == <<"0", "1", "2", "3", "4", "5", "6", "7", "8", "9">>
\* c - '0' for a character c; -1 stands for every character below '0' or
\* above '9'.
DigitOf(ch) == IF \E d \in 1 .. 10 : Digits[d] = ch
               THEN (CHOOSE d \in 1 .. 10 : Digits[d] = ch) - 1 ELSE -1

\* The verdict of the SIM800 driver's scan_line, the default scanner.
sim800_scan_line(l) ==
    IF at_prefix_in_table(l, sim800_urc_responses) THEN AT_RESPONSE_URC
    ELSE IF /\ Len(l) >= 1
            /\ DigitOf(l[1]) >= 0 /\ DigitOf(l[1]) <= SIM800_NSOCKETS
            /\ StrnEq(StrFrom(l, 1), <<",", " ">>, 2)
         THEN IF StrEq(StrFrom(l, 3), <<"C", "O", "N", "N", "E", "C", "T", " ", "O", "K">>)
              THEN AT_RESPONSE_URC
              ELSE IF \/ StrEq(StrFrom(l, 3), <<"C", "O", "N", "N", "E", "C", "T", " ", "F", "A", "I", "L">>)
                      \/ StrEq(StrFrom(l, 3), <<"A", "L", "R", "E", "A", "D", "Y", " ", "C", "O", "N", "N", "E", "C", "T">>)
                      \/ StrEq(StrFrom(l, 3), <<"C", "L", "O", "S", "E", "D">>)
                   THEN AT_RESPONSE_URC
                   ELSE AT_RESPONSE_UNKNOWN
         ELSE AT_RESPONSE_UNKNOWN

\* scanner_cipstatus, the per-command scanner of AT+CIPSTATUS.
scanner_cipstatus(l) ==
    IF StrEq(l, <<"O", "K">>) THEN AT_RESPONSE_INTERMEDIATE
    ELSE IF StrnEq(l, <<"C", ":", " ", "5">>, 4) THEN AT_RESPONSE_FINAL
    ELSE AT_RESPONSE_UNKNOWN

\* The callback tables at_set_callbacks may install: none, one without a
\* scan_line, the SIM800 driver's.
NoCbs == "NULL"
Callbacks == {NoCbs, "no_scan_line", "sim800_callbacks"}

\* at->command_scanner(line, len, at->arg)
CallCommandScanner(s, l) == scanner_cipstatus(l)

\* at->cbs->scan_line(line, len, at->arg)
CallDefaultScanner(cb, l) == sim800_scan_line(l)

\* The channel's scan_line without its per-command scanner.
scan_line_default_only(l, s, cb) ==
    IF cb # NoCbs /\ cb # "no_scan_line"
    THEN CallDefaultScanner(cb, l)
    ELSE AT_RESPONSE_UNKNOWN

\* The channel's scan_line.
scan_line(l, s, cb) ==
    LET type1 == IF s # NoScanner THEN CallCommandScanner(s, l)
                 ELSE AT_RESPONSE_UNKNOWN
    IN  IF type1 = AT_RESPONSE_UNKNOWN /\ cb # NoCbs /\ cb # "no_scan_line"
        THEN CallDefaultScanner(cb, l)
        ELSE type1

\* The lines scanned.
Lines == {
    <<>>,
    <<"O", "K">>,
    <<"O", "K", "A", "Y">>,
    <<"O">>,
    <<"C", ":", " ", "5">>,
    <<"C", ":", " ", "5", ",", "0">>,
    <<"C", ":", " ", "4">>,
    <<"R", "D", "Y">>,
    <<"+", "C", "F", "U", "N", ":", " ", "1">>,
    <<"+", "C", "F", "U", "N">>,
    <<"E", "R", "R", "O", "R">>,
    <<"0", ",", " ", "C", "O", "N", "N", "E", "C", "T", " ", "O", "K">>,
    <<"5", ",", " ", "C", "O", "N", "N", "E", "C", "T", " ", "F", "A", "I", "L">>,
    <<"6", ",", " ", "C", "L", "O", "S", "E", "D">>,
    <<"7", ",", " ", "C", "L", "O", "S", "E", "D">>,
    <<"0", ",", " ", "C", "L", "O", "S", "E", "D">>,
    <<"0", ",", "C", "L", "O", "S", "E", "D">>,
    <<"1", ",", " ", "A", "L", "R", "E", "A", "D", "Y", " ", "C", "O", "N", "N", "E", "C", "T">>,
    <<"1", ",", " ", "C", "O", "N", "N", "E", "C", "T", " ", "O", "K", "A", "Y">>,
    <<"D", "S", "T", ":", " ", "0">>}

\* at_set_callbacks(at, cbs, arg)
at_set_callbacks(cb) ==
    /\ ~Crashed
    /\ cbs' = cb
    /\ UNCHANGED <<chan, callerv, readerv, ctlv, hist, line, type, extv, sendv, freev, bufv, notev, drvv, parsv, fmtv>>

\* The parser hands a completed line to the channel's scan_line.
scan_line_call(l) ==
    /\ ~Crashed
    /\ line' = l
    /\ type' = scan_line(l, command_scanner, cbs)
    /\ UNCHANGED <<chan, callerv, readerv, ctlv, hist, cbs, extv, sendv, freev, bufv, notev, drvv, parsv, fmtv>>

(***************************************************************************)
(* Unsolicited result codes: the reader task hands a URC line to the       *)
(* channel's handle_urc, which forwards it to the driver's handler.        *)
(***************************************************************************)
BTPAIRING == <<"+", "B", "T", "P", "A", "I", "R", "I", "N", "G", ":", " ", "\"", "D", "r", "u", "i", "d", "_", "T", "e", "c", "h", "\"">>

\* The URC lines the modem sends.
UrcLines == {BTPAIRING \o <<",", "1">>, <<"R", "D", "Y">>}

\* The read returns the byte that ends a URC line.
at_reader_thread_read_urc ==
    /\ ~Crashed /\ rpc = "read"
    /\ xUART # NoUart
    /\ rch' = "urc"
    /\ urc' \in UrcLines
    /\ rpc' = "unbusy_st"
    /\ rld' = flags
    /\ UNCHANGED <<chan, callerv, fseen, ctlv, scanv, hist, FEA_SIM800_BT, rwrote, cfgv, sendv, freev, bufv, notev, drvv, parsv, fmtv>>

\* at_parser_feed finds the line to be a URC and calls handle_urc.
at_parser_feed_urc ==
    /\ ~Crashed /\ rpc = "feed_mid" /\ rch = "urc"
    /\ rpc' = "urc_cb"
    /\ rch' = "none"
    /\ fseen' = "Idle"
    /\ UNCHANGED <<chan, callerv, rld, ctlv, scanv, hist, extv, sendv, freev, bufv, notev, drvv, parsv, fmtv>>

\* The SIM800 driver's handle_urc calls at_send for this line.
sim800_handle_urc_sends(l) == FEA_SIM800_BT /\ StrnEq(l, BTPAIRING, Len(BTPAIRING))

\* The driver's handler called with the line, twice.
CallHandlerTwice(l) == IF script # <<>> THEN urcs \o <<l, l>> ELSE urcs

\* The driver's handler called with the line, where a script records it.
CallHandler(l) == IF script # <<>> THEN Append(urcs, l) ELSE urcs

\* The channel's handle_urc: if (at->cbs->handle_urc) ...; with cbs NULL
\* this dereferences a null pointer: nothing is called, or the program
\* faults.  The driver's handler returns, or enters at_send.
handle_urc ==
    /\ ~Crashed /\ rpc = "urc_cb"
    /\ \/ cbs = NoCbs /\ rpc' \in {"top", "fault"} /\ urcs' = urcs
       \/ cbs = "no_scan_line" /\ rpc' = "top" /\ urcs' = urcs
       \/ /\ cbs = "sim800_callbacks"
          /\ rpc' = IF sim800_handle_urc_sends(urc) THEN "urc_send" ELSE "top"
          /\ urcs' = CallHandler(urc)
    /\ UNCHANGED <<chan, callerv, rld, rch, fseen, ctlv, scanv, hist, extv, sendv, freev, bufv, notev, drvv, fmtv>>
    /\ UNCHANGED <<script, spos, pst, lbuf, rbuf, left, prompt, lines, resp>>

\* at_send and _at_send on the reader task: the open check ...
at_send_urc_check ==
    /\ ~Crashed /\ rpc = "urc_send"
    /\ rpc' = IF ~flags.open THEN "top" ELSE "urc_write"
    /\ UNCHANGED <<chan, callerv, rld, rch, fseen, ctlv, scanv, hist, extv, sendv, freev, bufv, notev, drvv, parsv, fmtv>>

\* ... and the write; with xUART NULL it does nothing, or faults.
at_send_urc_write ==
    /\ ~Crashed /\ rpc = "urc_write"
    /\ \/ rpc' = "top"
       \/ xUART = NoUart /\ rpc' = "fault"
    /\ rwrote' = TRUE
    /\ UNCHANGED <<chan, callerv, rld, rch, fseen, ctlv, scanv, hist, FEA_SIM800_BT, urc, cfgv, sendv, freev, bufv, notev, drvv, parsv, fmtv>>

UrcStep ==
    \/ at_reader_thread_read_urc
    \/ at_parser_feed_urc
    \/ handle_urc
    \/ at_send_urc_check
    \/ at_send_urc_write

(***************************************************************************)
(* at_config: probe an option, set it when the probe does not show the     *)
(* value, up to `attempts` times.  Its calls of at_command are the command *)
(* steps above.                                                            *)
(***************************************************************************)
MaxAttempts == 2
EXPECTED_SIZE == 32
LongOption == [i \in 1 .. EXPECTED_SIZE - 3 |-> "Q"]
ConfigOptions == {<<"X">>, LongOption}
ConfigValues == {<<"1">>}

\* snprintf(expected, sizeof(expected), "+%s: %s", option, value)
Expected(option, value) == <<"+">> \o option \o <<":", " ">> \o value

\* The texts a probe's response may hold.
ResponseTexts(option, value) ==
    {Expected(option, value), Expected(option, value) \o <<"0">>,
     Expected(option, <<"0">>), <<>>}

\* The lengths of "AT+%s?" and of "AT+%s=%s".
ProbeLength(a) == Len(a.option) + 4
SetLength(a) == Len(a.option) + Len(a.value) + 4

ConfigVars(pos, i, ret, text, event) ==
    /\ cfg' = pos
    /\ ci' = i
    /\ cret' = ret
    /\ rtext' = text
    /\ clog' = IF event = "" THEN clog ELSE Append(clog, event)
    /\ UNCHANGED <<chan, callerv, readerv, ctlv, hist, scanv, urcv, sendv, freev, bufv, notev, drvv, parsv, fmtv>>

at_config(option, value, attempts) ==
    /\ ~Crashed /\ cfg = "idle" /\ pc[1] = "idle"
    /\ cargs' = [option |-> option, value |-> value, attempts |-> attempts]
    /\ ConfigVars("loop", 0, 0, <<>>, "")

\* One round more than `attempts`.
ConfigContinueOneMore(i, attempts) == i <= attempts

\* i < attempts
ConfigContinue(i, attempts) == i < attempts

\* for (int i = 0; i < attempts; i++): the next round, or return 0.
at_config_loop ==
    /\ ~Crashed /\ cfg = "loop"
    /\ UNCHANGED cargs
    /\ IF ConfigContinue(ci, cargs.attempts)
       THEN ConfigVars("probe", ci, cret, rtext, "probe")
       ELSE ConfigVars("done", ci, 0, rtext, "exhausted")

\* response = at_command(at, "AT+%s?", option)
at_config_probe ==
    /\ cfg = "probe"
    /\ at_command(1, ProbeLength(cargs))

\* The probe returned: NULL returns -2; an expected text that does not
\* fit returns -1; a response that begins with it returns 0; otherwise
\* the option is set.
at_config_probe_result ==
    /\ ~Crashed /\ cfg = "probe" /\ pc[1] = "ret"
    /\ UNCHANGED cargs
    /\ IF retWhy # "response"
       THEN ConfigVars("done", ci, -2, rtext, "null")
       ELSE \E r \in ResponseTexts(cargs.option, cargs.value) :
              LET expected == Expected(cargs.option, cargs.value)
              IN  IF Len(expected) >= EXPECTED_SIZE
                  THEN ConfigVars("done", ci, -1, r, "overflow")
                  ELSE IF StrnEq(r, expected, Len(expected))
                  THEN ConfigVars("done", ci, 0, r, "match")
                  ELSE ConfigVars("probe_ret", ci, cret, r, "mismatch")

\* at_command returns to at_config.
at_config_command_return ==
    /\ cfg \in {"probe_ret", "set_ret", "done"}
    /\ at_command_return(1)

\* at_command(at, "AT+%s=%s", option, value): the call ...
at_config_set ==
    /\ ~Crashed /\ cfg = "probe_ret" /\ pc[1] = "idle"
    /\ UNCHANGED cargs
    /\ ConfigVars("set", ci, cret, rtext, "set")

at_config_set_command ==
    /\ cfg = "set"
    /\ at_command(1, SetLength(cargs))

\* ... and its return, whose result is not looked at.
at_config_set_result ==
    /\ ~Crashed /\ cfg = "set" /\ pc[1] = "ret"
    /\ UNCHANGED cargs
    /\ ConfigVars("set_ret", ci, cret, rtext, "")

\* vTaskDelay(pdMS_TO_TICKS(1000)); i++
at_config_delay ==
    /\ ~Crashed /\ cfg = "set_ret" /\ pc[1] = "idle"
    /\ UNCHANGED cargs
    /\ ConfigVars("loop", ci + 1, cret, rtext, "delay")

\* at_config has returned; the caller may call it again.
at_config_return ==
    /\ ~Crashed /\ cfg = "done" /\ pc[1] = "idle"
    /\ cargs' = NoArgs
    /\ cfg' = "idle" /\ ci' = 0 /\ cret' = 0 /\ rtext' = <<>> /\ clog' = <<>>
    /\ UNCHANGED <<chan, callerv, readerv, ctlv, hist, scanv, urcv, sendv, freev, bufv, notev, drvv, parsv, fmtv>>

\* The steps of a command between its call and its return.
CommandBody(c) ==
    \/ at_command_arm(c)
    \/ at_command_write(c)
    \/ at_command_waiting_load(c)
    \/ at_command_waiting_store(c)
    \/ at_command_clear_signal(c)
    \/ at_command_loop(c)
    \/ at_command_take_signalled(c)
    \/ at_command_take_timeout(c)
    \/ at_command_check_open(c)
    \/ at_command_check_waiting(c)
    \/ at_command_timed_out(c)

ConfigStep ==
    \/ \E o \in ConfigOptions, v \in ConfigValues, a \in 0 .. MaxAttempts :
          at_config(o, v, a)
    \/ at_config_loop
    \/ at_config_probe
    \/ at_config_probe_result
    \/ at_config_command_return
    \/ at_config_set
    \/ at_config_set_command
    \/ at_config_set_result
    \/ at_config_delay
    \/ at_config_return
    \/ CommandBody(1)

(***************************************************************************)
(* at_send, at_send_raw, at_send_hex: one-way writes through _at_send.     *)
(***************************************************************************)
MaxHexSize == 81
HEX_CHUNK == AT_COMMAND_LENGTH \div 2
HexLetters == <<"A", "B", "C", "D", "E", "F">>

\* byte_to_hex with the two characters exchanged.
byte_to_hex_swapped(byte) ==
    LET l == byte % 16
        h == (byte \div 16) % 16
    IN  <<IF l < 10 THEN Digits[l + 1] ELSE HexLetters[l - 10 + 1],
          IF h < 10 THEN Digits[h + 1] ELSE HexLetters[h - 10 + 1]>>

\* byte_to_hex: hex[1] from byte & 0x0F, hex[0] from (byte >> 4) & 0x0F.
byte_to_hex(byte) ==
    LET l == byte % 16
        h == (byte \div 16) % 16
    IN  <<IF h < 10 THEN Digits[h + 1] ELSE HexLetters[h - 10 + 1],
          IF l < 10 THEN Digits[l + 1] ELSE HexLetters[l - 10 + 1]>>

\* line[0 .. 2*len-1] after the for loop of at_send_hex.
HexLine(data, from, len) ==
    [k \in 1 .. 2 * len |->
        byte_to_hex(data[from + ((k - 1) \div 2) + 1])[((k - 1) % 2) + 1]]

\* The inputs of at_send_hex.
Pattern(n) == [i \in 1 .. n |-> (i * 37 + 11) % 256]
HexSizes == {0, 1, HEX_CHUNK, HEX_CHUNK + 1, MaxHexSize}
HexInputs == {Pattern(n) : n \in HexSizes} \cup {<<0>>, <<255>>, <<165, 10>>}

SendFrame == UNCHANGED <<chan, callerv, readerv, ctlv, hist, scanv, extv, fmtv, freev, bufv, notev, drvv, parsv>>

\* at_send: format the line; a line that does not fit returns false;
\* otherwise _at_send.
at_send(len) ==
    /\ ~Crashed /\ spc = "idle"
    /\ skind' = "send"
    /\ sclosed' = ~flags.open
    /\ IF len >= AT_COMMAND_LENGTH - 1
       THEN spc' = "done" /\ chunk' = <<>>
       ELSE spc' = "check" /\ chunk' = Text(len)
    /\ sret' = FALSE
    /\ UNCHANGED <<sdata, oset, swrites>>
    /\ SendFrame

at_send_raw(data) ==
    /\ ~Crashed /\ spc = "idle"
    /\ skind' = "raw"
    /\ sclosed' = ~flags.open
    /\ spc' = "check"
    /\ chunk' = data
    /\ UNCHANGED <<sdata, oset, swrites, sret>>
    /\ SendFrame

at_send_hex(data) ==
    /\ ~Crashed /\ spc = "idle"
    /\ skind' = "hex"
    /\ sclosed' = ~flags.open
    /\ sdata' = data
    /\ oset' = 0
    /\ spc' = "hex_loop"
    /\ UNCHANGED <<chunk, swrites, sret>>
    /\ SendFrame

\* while (oset < size): encode the next chunk and give it to _at_send;
\* after the loop, return true.
at_send_hex_loop ==
    /\ ~Crashed /\ spc = "hex_loop"
    /\ IF oset < Len(sdata)
       THEN LET len == IF Len(sdata) - oset > HEX_CHUNK
                       THEN HEX_CHUNK ELSE Len(sdata) - oset
            IN  /\ chunk' = HexLine(sdata, oset, len)
                /\ oset' = oset + len
                /\ spc' = "check"
                /\ sret' = sret
       ELSE /\ spc' = "done"
            /\ sret' = TRUE
            /\ UNCHANGED <<chunk, oset>>
    /\ UNCHANGED <<skind, sdata, swrites, sclosed>>
    /\ SendFrame

\* What follows the return of _at_send: at_send_hex goes on after a write
\* that succeeded; otherwise the result is returned.
SendResult(ok) ==
    IF skind = "hex" /\ ok
    THEN spc' = "hex_loop" /\ sret' = sret
    ELSE spc' = "done" /\ sret' = ok

\* _at_send without the open check of lines 353-356.
at_send_check_unchecked ==
    /\ ~Crashed /\ spc = "check"
    /\ spc' = "write" /\ sret' = sret
    /\ sclosed' = (sclosed /\ ~flags.open)
    /\ UNCHANGED <<skind, sdata, oset, chunk, swrites>>
    /\ SendFrame

\* _at_send: if (!priv->open) return false.
at_send_check ==
    /\ ~Crashed /\ spc = "check"
    /\ IF ~flags.open
       THEN SendResult(FALSE)
       ELSE spc' = "write" /\ sret' = sret
    /\ sclosed' = (sclosed /\ ~flags.open)
    /\ UNCHANGED <<skind, sdata, oset, chunk, swrites>>
    /\ SendFrame

\* _at_send: return write(xUART, data, size) == size.  The write takes all
\* the bytes or fewer; with xUART NULL it does nothing, or faults.
at_send_write ==
    /\ ~Crashed /\ spc = "write"
    /\ \/ /\ xUART # NoUart
          /\ \E ok \in BOOLEAN :
                /\ swrites' = Append(swrites, [data |-> chunk, ok |-> ok])
                /\ SendResult(ok)
       \/ /\ xUART = NoUart
          /\ swrites' = swrites
          /\ \/ SendResult(FALSE)
             \/ spc' = "fault" /\ sret' = sret
    /\ UNCHANGED <<skind, sdata, oset, chunk, sclosed>>
    /\ SendFrame

\* The send has returned.
at_send_return ==
    /\ ~Crashed /\ spc = "done"
    /\ spc' = "idle" /\ skind' = "none" /\ sdata' = <<>> /\ oset' = 0
    /\ chunk' = <<>> /\ swrites' = <<>> /\ sret' = FALSE /\ sclosed' = FALSE
    /\ SendFrame

SendStep ==
    \/ \E len \in FormatLengths : at_send(len)
    \/ at_send_raw(RawData)
    \/ \E data \in HexInputs : at_send_hex(data)
    \/ at_send_hex_loop
    \/ at_send_check
    \/ at_send_write
    \/ at_send_return

(***************************************************************************)
(* at_free: close the channel, stop the reader task, delete the task and   *)
(* the semaphore.                                                          *)
(***************************************************************************)
SemDeleted == -1
FreeFrame == UNCHANGED <<callerv, scanv, extv, fmtv, sendv, bufv, notev, drvv, parsv, hist>>

\* at_free calls at_close: the load of the flag byte for priv->open = false.
at_free ==
    /\ ~Crashed /\ kpc = "idle" /\ fpc = "none"
    /\ fpc' = "closing"
    /\ kld' = flags
    /\ kpc' = "close_st"
    /\ UNCHANGED <<chan, readerv, flog>>
    /\ FreeFrame

\* at_close has returned; priv->running = false: the load of the flag
\* byte ...
at_free_running_load ==
    /\ ~Crashed /\ kpc = "idle" /\ fpc = "closing"
    /\ flog' = Append(flog, "close")
    /\ fpc' = "running"
    /\ kld' = flags
    /\ kpc' = "run_st"
    /\ UNCHANGED <<chan, readerv>>
    /\ FreeFrame

SetRunning(f, b) == [f EXCEPT !.running = b]

\* ... and its store.
at_free_running_store ==
    /\ ~Crashed /\ kpc = "run_st"
    /\ flags' = SetRunning(kld, FALSE)
    /\ kld' = NoLoad
    /\ kpc' = "free_task"
    /\ flog' = Append(flog, "running")
    /\ UNCHANGED <<xUART, xSem, timeout, delay, command_scanner, response, pstate>>
    /\ UNCHANGED <<readerv, fpc>>
    /\ FreeFrame

\* vTaskDelete(priv->xTask): the reader task stops where it is.
at_free_task_delete ==
    /\ ~Crashed /\ kpc = "free_task"
    /\ rpc' = "deleted"
    /\ kpc' = "free_sem"
    /\ flog' = Append(flog, "task")
    /\ UNCHANGED <<chan, rld, rch, fseen, kld, fpc>>
    /\ FreeFrame

\* vSemaphoreDelete(priv->xSem); at_free returns.
at_free_semaphore_delete ==
    /\ ~Crashed /\ kpc = "free_sem"
    /\ xSem' = SemDeleted
    /\ kpc' = "freed"
    /\ fpc' = "freed"
    /\ flog' = Append(flog, "sem")
    /\ UNCHANGED <<flags, xUART, timeout, delay, command_scanner, response, pstate>>
    /\ UNCHANGED <<readerv, kld>>
    /\ FreeFrame

FreeStep ==
    \/ at_free
    \/ at_free_running_load
    \/ at_free_task_delete
    \/ at_free_semaphore_delete

(***************************************************************************)
(* The steps of the three kinds of task.                                   *)
(***************************************************************************)
\* A command, from the call to the return of its result.
CommandStep(c) ==
    \/ at_command_raw(c)
    \/ at_command_arm(c)
    \/ at_command_write(c)
    \/ at_command_waiting_load(c)
    \/ at_command_waiting_store(c)
    \/ at_command_clear_signal(c)
    \/ at_command_loop(c)
    \/ at_command_take_signalled(c)
    \/ at_command_take_timeout(c)
    \/ at_command_check_open(c)
    \/ at_command_check_waiting(c)
    \/ at_command_timed_out(c)
    \/ at_command_return(c)

CallerStep(c) ==
    \/ \E t \in TimeoutValues : at_set_timeout(c, t)
    \/ \E ms \in DelayMs : at_set_delay(c, ms)
    \/ \E s \in Scanners \cup {NoScanner} : at_set_command_scanner(c, s)
    \/ \E len \in FormatLengths : at_command(c, len)
    \/ CommandStep(c)

ReaderStep ==
    \/ at_reader_thread_wait
    \/ at_reader_thread_busy_load
    \/ at_reader_thread_busy_store
    \/ at_reader_thread_read
    \/ at_reader_thread_busy_clear
    \/ at_parser_feed_begin
    \/ at_parser_feed_end
    \/ handle_response_copy
    \/ handle_response_nul
    \/ handle_response_waiting
    \/ handle_response_give

ControlStep ==
    \/ at_open
    \/ at_open_store
    \/ at_close
    \/ at_close_store
    \/ at_close_release

\* A task has loaded the flag byte and not yet stored it.
StorePending ==
    \/ \E c \in Callers : pc[c] = "w_st"
    \/ rpc \in {"busy_st", "unbusy_st", "hr_st"}
    \/ kpc \in {"open_st", "close_st"}

StoreStep ==
    \/ \E c \in Callers : at_command_waiting_store(c)
    \/ at_reader_thread_busy_store
    \/ at_reader_thread_busy_clear
    \/ handle_response_waiting
    \/ at_open_store
    \/ at_close_store

(***************************************************************************)
(* Spec: one command-issuing context (the convention the channel relies    *)
(* on), the reader and the controlling context, with every write of a      *)
(* flag executed without interruption: once a task has loaded the flag     *)
(* byte, its store is the next step.                                       *)
(***************************************************************************)
Next ==
    \/ ~StorePending /\ (CallerStep(1) \/ ReaderStep \/ ControlStep)
    \/ StorePending /\ StoreStep

Spec == Init /\ [][Next]_vars

(***************************************************************************)
(* SpecBits: the flag writes as the build executes them, load and store    *)
(* of the shared byte as separate steps that other tasks interleave with.  *)
(* Every behaviour of Spec whose commands are at_command_raw calls with a  *)
(* timeout of 0 or 1 is a behaviour of SpecBits.                           *)
(***************************************************************************)
NextBits ==
    \/ at_set_timeout(1, 1)
    \/ CommandStep(1)
    \/ ReaderStep
    \/ ControlStep

SpecBits == Init /\ [][NextBits]_vars

(***************************************************************************)
(* SpecMulti: two contexts issue commands on the channel, which has no     *)
(* lock of its own (the xMutex of _at_command is commented out).           *)
(***************************************************************************)
NextMulti ==
    \/ ~StorePending /\ \/ at_set_timeout(1, 1)
                        \/ \E c \in Callers : CommandStep(c)
                        \/ ReaderStep
                        \/ at_open
    \/ StorePending /\ StoreStep

SpecMulti == Init /\ [][NextMulti]_vars

\* Line scanning alone: scanners and callbacks are installed and lines are
\* scanned on an idle channel.
NextScan ==
    \/ \E s \in Scanners \cup {NoScanner} : at_set_command_scanner(1, s)
    \/ \E cb \in Callbacks : at_set_callbacks(cb)
    \/ \E l \in Lines : scan_line_call(l)

SpecScan == Init /\ [][NextScan]_vars

\* URC dispatch: the reader task with URC lines, a driver's callbacks, one
\* caller, in either build of the SIM800 driver.
InitUrc == InitBase /\ FEA_SIM800_BT \in BOOLEAN /\ track = FALSE /\ script = <<>>

NextUrc ==
    \/ ~StorePending /\ \/ \E cb \in Callbacks : at_set_callbacks(cb)
                         \/ at_open
                         \/ at_close
                         \/ at_close_release
                         \/ CommandStep(1)
                         \/ ReaderStep
                         \/ UrcStep
    \/ StorePending /\ StoreStep

SpecUrc == InitUrc /\ [][NextUrc]_vars

\* at_config on an open or closed port, the reader task answering or not.
NextConfig ==
    \/ ~StorePending /\ \/ at_set_timeout(1, 1)
                         \/ at_open
                         \/ ConfigStep
                         \/ ReaderStep
    \/ StorePending /\ StoreStep

SpecConfig == Init /\ [][NextConfig]_vars

\* The sends of one task while the port is opened and closed and another
\* task issues commands.
NextSend ==
    \/ ~StorePending /\ \/ at_open
                         \/ at_close
                         \/ at_close_release
                         \/ SendStep
                         \/ CommandStep(1)
    \/ StorePending /\ StoreStep

SpecSend == Init /\ [][NextSend]_vars

\* The channel's life: opened and closed any number of times, then freed,
\* the reader task running meanwhile.
FreeStorePending == StorePending \/ kpc = "run_st"

NextFree ==
    \/ ~FreeStorePending /\ \/ at_set_timeout(1, 1)
                             \/ ControlStep \/ FreeStep \/ ReaderStep \/ CommandStep(1)
    \/ FreeStorePending /\ (StoreStep \/ at_free_running_store)

SpecFree == Init /\ [][NextFree]_vars

\* Commands answered by responses of every length.
NextBuf ==
    \/ ~StorePending /\ \/ at_set_timeout(1, 1)
                         \/ at_open
                         \/ CommandStep(1)
                         \/ ReaderStep
                         \/ at_parser_feed_any
    \/ StorePending /\ StoreStep

SpecBuf == Init /\ [][NextBuf]_vars

(***************************************************************************)
(* The parser, byte by byte: the line assembler, the classification of a   *)
(* completed line and the parser's state machine.                          *)
(***************************************************************************)
AT_RESPONSE_FINAL_OK == "AT_RESPONSE_FINAL_OK"
AT_RESPONSE_RAWDATA_FOLLOWS == "AT_RESPONSE_RAWDATA_FOLLOWS"

\* The line buffer holds this many bytes before its NUL.
LINE_MAX == 79

\* Append a byte to the line buffer; a full buffer keeps its bytes and
\* loses the new one.
AppendTailDrop(b, ch) == IF Len(b) >= LINE_MAX THEN b ELSE Append(b, ch)

\* Append a byte to the line buffer; a full buffer first drops its oldest
\* byte.
AppendHeadDrop(b, ch) == IF Len(b) >= LINE_MAX THEN Tail(b) \o <<ch>> ELSE Append(b, ch)

\* The value of the digits a text begins with, -1 when it begins with none.
RECURSIVE DigitsValue(_, _)
DigitsValue(t, acc) ==
    IF t = <<>> \/ DigitOf(t[1]) < 0 THEN acc
    ELSE DigitsValue(Tail(t), (IF acc < 0 THEN 0 ELSE acc * 10) + DigitOf(t[1]))

\* The index of the first comma of a text, 0 when it has none.
FirstComma(t) ==
    IF \E i \in 1 .. Len(t) : t[i] = ","
    THEN CHOOSE i \in 1 .. Len(t) : t[i] = "," /\ \A j \in 1 .. i - 1 : t[j] # ","
    ELSE 0

QIRD == <<"+", "Q", "I", "R", "D", ":", " ">>
TCP == <<",", "T", "C", "P", ",">>

\* scanner_qird announcing one byte more than the line says.
scanner_qird_more(l) ==
    LET rest == StrFrom(l, Len(QIRD))
        k == FirstComma(rest)
        value == DigitsValue(StrFrom(rest, k - 1 + Len(TCP)), -1)
    IN  IF /\ Len(l) > Len(QIRD) /\ StrnEq(l, QIRD, Len(QIRD))
           /\ k >= 2
           /\ Len(rest) >= k - 1 + Len(TCP)
           /\ StrnEq(StrFrom(rest, k - 1), TCP, Len(TCP))
           /\ value > 0
        THEN value + 1 ELSE 0

\* scanner_qird: sscanf(line, "+QIRD: %*[^,],TCP,%d", &read) == 1 and
\* read > 0 give RAWDATA_FOLLOWS(read); the result is the count, 0 for
\* AT_RESPONSE_UNKNOWN.
scanner_qird(l) ==
    LET rest == StrFrom(l, Len(QIRD))
        k == FirstComma(rest)
        value == DigitsValue(StrFrom(rest, k - 1 + Len(TCP)), -1)
    IN  IF /\ Len(l) > Len(QIRD) /\ StrnEq(l, QIRD, Len(QIRD))
           /\ k >= 2
           /\ Len(rest) >= k - 1 + Len(TCP)
           /\ StrnEq(StrFrom(rest, k - 1), TCP, Len(TCP))
           /\ value > 0
        THEN value ELSE 0

FinalLines == {
    <<"E", "R", "R", "O", "R">>,
    <<"N", "O", " ", "C", "A", "R", "R", "I", "E", "R">>,
    <<"B", "U", "S", "Y">>,
    <<"N", "O", " ", "A", "N", "S", "W", "E", "R">>,
    <<"N", "O", " ", "D", "I", "A", "L", "T", "O", "N", "E">>}
FinalPrefixes == {
    <<"+", "C", "M", "E", " ", "E", "R", "R", "O", "R", ":">>,
    <<"+", "C", "M", "S", " ", "E", "R", "R", "O", "R", ":">>}

\* The parser's own classification of a line no scanner knows.
generic_line_scanner(l) ==
    IF StrEq(l, <<"O", "K">>) THEN AT_RESPONSE_FINAL_OK
    ELSE IF l \in FinalLines \/ at_prefix_in_table(l, FinalPrefixes) THEN AT_RESPONSE_FINAL
    ELSE AT_RESPONSE_INTERMEDIATE

\* The classification of a completed line: the per-command scanner, the
\* default scanner, then the parser's own.
Classify(l, s, cb) ==
    IF s = "scanner_qird" /\ scanner_qird(l) > 0
    THEN [t |-> AT_RESPONSE_RAWDATA_FOLLOWS, n |-> scanner_qird(l)]
    ELSE LET type1 == scan_line(l, IF s = "scanner_qird" THEN NoScanner ELSE s, cb)
         IN  [t |-> IF type1 = AT_RESPONSE_UNKNOWN THEN generic_line_scanner(l) ELSE type1,
              n |-> 0]

\* The response buffer without the newline that ends its last line.
Finalize(r) ==
    IF r # <<>> /\ r[Len(r)] = "\n" THEN SubSeq(r, 1, Len(r) - 1) ELSE r

\* The parser after an event: its state and buffers, the event ("none",
\* "line", "urc" or "response") and the line or response of the event.
ParserNow == [pst |-> pst, lbuf |-> lbuf, rbuf |-> rbuf, left |-> left, prompt |-> prompt]
After(p, event, text) == [p |-> p, event |-> event, text |-> text]

\* The response is complete: it is passed to handle_response and the
\* parser is reset.
Complete(p, r) ==
    After([p EXCEPT !.pst = "Idle", !.lbuf = <<>>, !.rbuf = r, !.left = 0, !.prompt = <<>>],
          "response", r)

\* A completed line: classified, then handled as the state says.
HandleLine(p, s, cb) ==
    LET l == p.lbuf
        c == Classify(l, s, cb)
        q == [p EXCEPT !.lbuf = <<>>]
    IN  IF c.t = AT_RESPONSE_URC THEN After(q, "urc", l)
        ELSE IF p.pst = "Idle" THEN After(q, "line", l)
        ELSE IF c.t = AT_RESPONSE_INTERMEDIATE
        THEN After([q EXCEPT !.rbuf = p.rbuf \o l \o <<"\n">>], "line", l)
        ELSE IF c.t = AT_RESPONSE_FINAL THEN Complete(q, p.rbuf \o l)
        ELSE IF c.t = AT_RESPONSE_FINAL_OK THEN Complete(q, Finalize(p.rbuf))
        ELSE After([q EXCEPT !.rbuf = p.rbuf \o l \o <<"\n">>, !.pst = "Raw", !.left = c.n],
                   "line", l)

\* at_parser_feed for one byte.
ParserFeed(p, ch, s, cb) ==
    IF p.pst = "Raw"
    THEN IF p.left > 1
         THEN After([p EXCEPT !.rbuf = Append(p.rbuf, ch), !.left = p.left - 1], "none", <<>>)
         ELSE After([p EXCEPT !.rbuf = Append(p.rbuf, ch) \o <<"\n">>, !.left = 0,
                              !.pst = "Await"], "none", <<>>)
    ELSE IF ch = "\r" THEN After(p, "none", <<>>)
    ELSE IF ch = "\n"
    THEN IF p.lbuf = <<>> THEN After(p, "none", <<>>) ELSE HandleLine(p, s, cb)
    ELSE LET q == [p EXCEPT !.lbuf = AppendHeadDrop(p.lbuf, ch)]
         IN  IF q.pst = "Prompt" /\ q.lbuf = q.prompt
             THEN Complete(q, <<>>)
             ELSE After(q, "none", <<>>)

\* at_expect_dataprompt(at, prompt)
at_expect_dataprompt(c, p) ==
    /\ ~Crashed /\ pc[c] = "idle"
    /\ prompt' = p
    /\ UNCHANGED <<script, spos, pst, lbuf, rbuf, left, urcs, lines, resp>>
    /\ UNCHANGED <<chan, callerv, readerv, ctlv, hist, scanv, extv, fmtv, sendv, freev, bufv, notev, drvv>>

\* The reader task reads the modem's next byte and feeds it to the parser;
\* a URC line goes to handle_urc, a complete response to handle_response.
at_reader_thread_feed ==
    /\ ~Crashed /\ rpc = "top"
    /\ flags.running /\ flags.open /\ xUART # NoUart
    /\ spos < Len(script)
    /\ LET a == ParserFeed(ParserNow, script[spos + 1], command_scanner, cbs)
       IN  /\ spos' = spos + 1
           /\ pst' = a.p.pst /\ lbuf' = a.p.lbuf /\ rbuf' = a.p.rbuf
           /\ left' = a.p.left /\ prompt' = a.p.prompt
           /\ lines' = IF a.event \in {"line", "urc"} \/ (a.event = "response" /\ lbuf # <<>> /\ script[spos + 1] = "\n")
                       THEN Append(lines, lbuf) ELSE lines
           /\ urcs' = urcs
           /\ urc' = IF a.event = "urc" THEN a.text ELSE urc
           /\ resp' = IF a.event = "response" THEN <<a.text>> ELSE resp
           /\ plen' = IF a.event = "response" THEN Len(a.text) ELSE plen
           /\ pstate' = IF a.event = "response" THEN "Idle" ELSE pstate
           /\ rpc' = CASE a.event = "response" -> "hr_copy"
                       [] a.event = "urc" -> "urc_cb"
                       [] OTHER -> "top"
    /\ UNCHANGED <<flags, xUART, xSem, timeout, delay, command_scanner, response>>
    /\ UNCHANGED <<callerv, rld, rch, fseen, ctlv, hist, scanv, cfgv, fmtv, sendv, freev>>
    /\ UNCHANGED <<script, FEA_SIM800_BT, rwrote, buf, over, notev, drvv>>

\* What the modem sends in one run.  "NUL" stands for the byte 0.
CRLF == <<"\r", "\n">>
LF == <<"\n">>
OkLine == <<"O", "K">>
ErrorLine == <<"E", "R", "R", "O", "R">>
CmeLine == <<"+", "C", "M", "E", " ", "E", "R", "R", "O", "R", ":", " ", "1", "0">>
RdyLine == <<"R", "D", "Y">>
FirstLine == <<"+", "C">>
SecondLine == <<"+", "D">>
RawBytes == <<"\n", "NUL", "\r">>
QirdLine == QIRD \o <<"1">> \o TCP \o <<"3">>
DataPrompt == <<">", " ">>
LongLine(n) == [i \in 1 .. n |-> Digits[(i % 10) + 1]]
Overlong == LINE_MAX + 21

Scripts == {
    FirstLine \o LF \o SecondLine \o CRLF \o OkLine \o LF,
    FirstLine \o LF \o ErrorLine \o LF,
    CmeLine \o LF}
UrcScript == FirstLine \o LF \o RdyLine \o CRLF \o OkLine \o CRLF
RawScript == QirdLine \o LF \o RawBytes \o OkLine \o CRLF
PromptScript == DataPrompt \o OkLine \o CRLF
LongScripts == {
    RdyLine \o LongLine(LINE_MAX - Len(RdyLine)) \o CRLF,
    LongLine(Overlong - LINE_MAX) \o RdyLine \o LongLine(LINE_MAX - Len(RdyLine)) \o CRLF}

InitQuiet == InitBase /\ FEA_SIM800_BT = FALSE /\ track = FALSE
InitParser == InitQuiet /\ script \in Scripts
InitDispatch == InitQuiet /\ script = UrcScript
InitRaw == InitQuiet /\ script = RawScript
InitPrompt == InitQuiet /\ script = PromptScript
InitLine == InitQuiet /\ script \in LongScripts

ResponseStep ==
    \/ at_reader_thread_feed
    \/ handle_response_copy
    \/ handle_response_nul
    \/ handle_response_waiting
    \/ handle_response_give

\* The stores of the flags that these runs have pending.
CommandStore ==
    \/ at_command_waiting_store(1)
    \/ handle_response_waiting
    \/ at_open_store

\* Lines arriving while commands run.
NextParser ==
    \/ ~StorePending /\ \/ at_set_timeout(1, 1)
                         \/ at_open
                         \/ CommandStep(1)
                         \/ ResponseStep
    \/ StorePending /\ CommandStore

SpecParser == InitParser /\ [][NextParser]_vars

\* Lines and a URC arriving while commands run.
NextDispatch ==
    \/ ~StorePending /\ \/ at_set_callbacks("sim800_callbacks")
                         \/ at_set_timeout(1, 1)
                         \/ at_open
                         \/ CommandStep(1)
                         \/ ResponseStep
                         \/ handle_urc
    \/ StorePending /\ CommandStore

SpecDispatch == InitDispatch /\ [][NextDispatch]_vars

\* Lines and a URC arriving while callbacks are installed and removed.
NextDetach ==
    \/ ~StorePending /\ \/ \E cb \in Callbacks : at_set_callbacks(cb)
                         \/ at_open
                         \/ at_reader_thread_feed
                         \/ handle_urc
    \/ StorePending /\ at_open_store

SpecDetach == InitDispatch /\ [][NextDetach]_vars

\* A header line and its raw payload arriving while commands run.
NextRaw ==
    \/ ~StorePending /\ \/ at_set_command_scanner(1, "scanner_qird")
                         \/ at_set_timeout(1, 1)
                         \/ at_open
                         \/ CommandStep(1)
                         \/ ResponseStep
    \/ StorePending /\ CommandStore

SpecRaw == InitRaw /\ [][NextRaw]_vars

\* A data prompt expected on a port that is opened and closed.
NextPrompt ==
    \/ ~StorePending /\ \/ at_expect_dataprompt(1, DataPrompt)
                         \/ at_set_timeout(1, 1)
                         \/ at_open
                         \/ at_close
                         \/ at_close_release
                         \/ CommandStep(1)
                         \/ ResponseStep
    \/ StorePending /\ (CommandStore \/ at_close_store)

SpecPrompt == InitPrompt /\ [][NextPrompt]_vars

\* Long lines arriving on an open port.
NextLine ==
    \/ ~StorePending /\ \/ at_set_callbacks("sim800_callbacks")
                         \/ at_open
                         \/ at_close
                         \/ at_close_release
                         \/ at_reader_thread_feed
                         \/ handle_urc
    \/ StorePending /\ (at_open_store \/ at_close_store)

SpecLine == InitLine /\ [][NextLine]_vars

(***************************************************************************)
(* Driver operations that return an integer: m6315_pdp_open and            *)
(* nb501_resume.  Each issues its commands in order; what a command gets   *)
(* from the channel is an input: NULL, the empty response of an OK, or a   *)
(* text.                                                                   *)
(***************************************************************************)
CGACT == <<"+", "C", "G", "A", "C", "T", ":", " ">>
DriverTexts ==
    {<<>>, <<"E", "R", "R", "O", "R">>,
     CGACT \o <<"1", ",", "1">>, CGACT \o <<"1", ",", "0">>}
NullResponse == [null |-> TRUE, text |-> <<>>]
DriverResponses ==
    {NullResponse} \cup {[null |-> FALSE, text |-> t] : t \in DriverTexts}

\* What at_config returns for an option and a value that fit its buffer:
\* 0, or -2 when a probe got no response.
ConfigResults == {0, -2}

Outcome(r) == IF r.null THEN "null" ELSE IF r.text = <<>> THEN "ok" ELSE "text"

\* The steps of the two operations, in order.
DriverSteps(op) ==
    IF op = "m6315_pdp_open"
    THEN <<"config", "config", "config", "cgact", "simple", "simple">>
    ELSE <<"simple", "simple", "simple", "ignored", "ignored", "simple", "simple",
           "nping">>

DriverOps == {"m6315_pdp_open", "nb501_resume"}

DriverFrame ==
    UNCHANGED <<chan, callerv, readerv, ctlv, hist, scanv, extv, fmtv, sendv, freev,
                bufv, notev, parsv, modv>>

DriverAt(kind) ==
    /\ dst = "run"
    /\ dpc <= Len(DriverSteps(dop))
    /\ DriverSteps(dop)[dpc] = kind

\* The operation returns ret, or goes on to its next step; past the last
\* step it returns 0.
DriverReturn(ret) ==
    /\ dst' = "ret"
    /\ dret' = ret
    /\ dpc' = dpc

DriverFault ==
    /\ dst' = "fault"
    /\ UNCHANGED <<dret, dpc>>

DriverGoOn ==
    /\ dpc' = dpc + 1
    /\ dret' = 0
    /\ dst' = IF dpc = Len(DriverSteps(dop)) THEN "ret" ELSE "run"

driver_call(op) ==
    /\ dst = "idle"
    /\ dop' = op
    /\ dpc' = 1
    /\ dlog' = <<>>
    /\ dst' = "run"
    /\ dret' = 0
    /\ active' = 0
    /\ DriverFrame

\* if (at_config(...) != 0) return -1;
m6315_pdp_open_config ==
    /\ DriverAt("config")
    /\ \E r \in ConfigResults :
         /\ dlog' = Append(dlog, IF r = -2 THEN "null" ELSE "ok")
         /\ IF r # 0 THEN DriverReturn(-1) ELSE DriverGoOn
    /\ UNCHANGED <<dop, active>>
    /\ DriverFrame

\* at_command_simple: NULL returns -2, a response other than "" returns -1.
SimpleResult(r) == IF r.null THEN -2 ELSE IF r.text = <<>> THEN 0 ELSE -1

at_command_simple ==
    /\ DriverAt("simple")
    /\ \E r \in DriverResponses :
         /\ dlog' = Append(dlog, Outcome(r))
         /\ IF SimpleResult(r) # 0 THEN DriverReturn(SimpleResult(r)) ELSE DriverGoOn
    /\ UNCHANGED <<dop, active>>
    /\ DriverFrame

\* at_command(...) whose result is not looked at.
at_command_ignored ==
    /\ DriverAt("ignored")
    /\ \E r \in DriverResponses : dlog' = Append(dlog, Outcome(r))
    /\ DriverGoOn
    /\ UNCHANGED <<dop, active>>
    /\ DriverFrame

\* sscanf(response, "+CGACT: %*d,%d", &active): the number of values
\* stored and the value.
ScanCgact(r) ==
    IF /\ Len(r) >= Len(CGACT) + 3
       /\ StrnEq(r, CGACT, Len(CGACT))
       /\ DigitOf(r[Len(CGACT) + 1]) >= 0
       /\ r[Len(CGACT) + 2] = ","
       /\ DigitOf(r[Len(CGACT) + 3]) >= 0
    THEN [n |-> 1, value |-> DigitOf(r[Len(CGACT) + 3])]
    ELSE [n |-> 0, value |-> 0]

\* response = at_command(at, "AT+CGACT?"); if (strlen(response))
\* at_simple_scanf(...); if (active) return 0.  strlen of a NULL response
\* dereferences a null pointer: the program faults, or strlen yields
\* nothing or something, and at_simple_scanf then returns -2.
m6315_pdp_open_cgact ==
    /\ DriverAt("cgact")
    /\ \E r \in DriverResponses :
         /\ dlog' = Append(dlog, Outcome(r))
         /\ IF r.null
            THEN /\ \/ DriverFault
                    \/ DriverReturn(-2)
                    \/ DriverGoOn
                 /\ active' = active
            ELSE IF Len(r.text) = 0
            THEN DriverGoOn /\ active' = active
            ELSE IF ScanCgact(r.text).n # 1
            THEN DriverReturn(-1) /\ active' = active
            ELSE /\ active' = ScanCgact(r.text).value
                 /\ IF active' # 0 THEN DriverReturn(0) ELSE DriverGoOn
    /\ UNCHANGED dop
    /\ DriverFrame

\* response = at_command(at, "AT+NPING=192.168.1.1");
\* if (response || *response == '\0') { wait for the radio } return
\* nb501_op_reset(modem).  With a NULL response *response dereferences a
\* null pointer.  The wait ends with 0 when the radio connects; otherwise
\* nb501_op_reset runs, which returns -2 when one of its commands gets no
\* response.
ResetResults == {0, -1, -2}

nb501_resume_nping ==
    /\ DriverAt("nping")
    /\ \E r \in DriverResponses :
         \/ /\ r.null
            /\ dlog' = Append(dlog, "null")
            /\ DriverFault
         \/ /\ dlog' = Append(dlog, Outcome(r))
            /\ DriverReturn(0)
         \/ \E reset \in ResetResults :
              /\ dlog' = Append(Append(dlog, Outcome(r)),
                                IF reset = -2 THEN "null" ELSE "ok")
              /\ DriverReturn(reset)
    /\ UNCHANGED <<dop, active>>
    /\ DriverFrame

\* The caller has the result.
driver_return ==
    /\ dst = "ret"
    /\ dop' = "none"
    /\ dpc' = 0
    /\ dlog' = <<>>
    /\ dst' = "idle"
    /\ dret' = 0
    /\ active' = 0
    /\ DriverFrame

NextDriver ==
    \/ \E op \in DriverOps : driver_call(op)
    \/ m6315_pdp_open_config
    \/ at_command_simple
    \/ at_command_ignored
    \/ m6315_pdp_open_cgact
    \/ nb501_resume_nping
    \/ driver_return

SpecDriver == Init /\ [][NextDriver]_vars

(***************************************************************************)
(* PDP management: cellular_pdp_request, cellular_pdp_success and          *)
(* cellular_pdp_failure, and the socket connects that go through them.     *)
(***************************************************************************)
PDP_RETRY_THRESHOLD_INITIAL == 3
PDP_RETRY_THRESHOLD_MULTIPLIER == 2
MaxFailures == 28

PdpFrame ==
    UNCHANGED <<chan, callerv, readerv, ctlv, hist, scanv, extv, fmtv, sendv, freev,
                bufv, notev, parsv, dop, dpc, dlog, dst, dret, active, ops, slog, recv>>

\* cellular_pdp_success
PdpSuccess(m) ==
    [m EXCEPT !.pdp_failures = 0, !.pdp_threshold = PDP_RETRY_THRESHOLD_INITIAL]

\* cellular_pdp_failure
PdpFailure(m) == [m EXCEPT !.pdp_failures = m.pdp_failures + 1]

\* The head of cellular_pdp_request: whether pdp_close is called ...
PdpStuck(m) == m.pdp_failures >= m.pdp_threshold

\* No backoff: the threshold left as it is.
PdpBackoffNone(m) == m

\* ... and the exponential backoff.
PdpBackoff(m) ==
    IF PdpStuck(m)
    THEN [m EXCEPT !.pdp_threshold = m.pdp_threshold * (1 + PDP_RETRY_THRESHOLD_MULTIPLIER)]
    ELSE m

\* cellular_pdp_request with the outcome of pdp_open: the modem after it.
PdpRequest(m, open) ==
    IF open = "ok" THEN PdpBackoff(m) ELSE PdpFailure(PdpBackoff(m))

\* The history after an operation that began with cellular_pdp_request.
PdpLog(op, open, ret) ==
    [op |-> op, open |-> open, closed |-> PdpStuck(modem), ret |-> ret,
     since |-> mlog.since,
     closes |-> IF mlog.since /\ PdpStuck(modem)
                THEN Append(mlog.closes, modem.pdp_failures)
                ELSE mlog.closes]

Outcomes == {"ok", "fail"}

\* cellular_pdp_success called on its own.
cellular_pdp_success ==
    /\ UNCHANGED socks
    /\ modem' = PdpSuccess(modem)
    /\ mlog' = [NoPdp EXCEPT !.op = "cellular_pdp_success", !.since = TRUE]
    /\ PdpFrame

\* cellular_pdp_request called on its own.
cellular_pdp_request ==
    /\ UNCHANGED socks
    /\ modem.pdp_failures < MaxFailures
    /\ \E open \in Outcomes :
          /\ modem' = PdpRequest(modem, open)
          /\ mlog' = PdpLog("cellular_pdp_request", open, IF open = "ok" THEN 0 ELSE -1)
    /\ PdpFrame

\* cellular_command_simple_pdp in sim800_socket_connect: the request, the
\* command, and cellular_pdp_failure or cellular_pdp_success by its response.
\* The connect returns the connid when the socket's URC reports it connected.
sim800_socket_connect ==
    /\ ops = "sim800"
    /\ UNCHANGED socks
    /\ modem.pdp_failures < MaxFailures
    /\ \E open \in Outcomes, command \in Outcomes, status \in Outcomes :
          LET m == PdpRequest(modem, open)
              connected == open = "ok" /\ command = "ok" /\ status = "ok"
          IN  /\ modem' = IF open # "ok" THEN m
                          ELSE IF command # "ok" THEN PdpFailure(m)
                          ELSE PdpSuccess(m)
              /\ mlog' = [PdpLog("sim800_socket_connect", open, IF connected THEN 0 ELSE -1)
                            EXCEPT !.since = IF open = "ok" /\ command = "ok" THEN TRUE ELSE @,
                                   !.closes = IF open = "ok" /\ command = "ok" THEN <<>> ELSE @]
    /\ PdpFrame

\* priv->socket_status[k] = v
SetStatus(s, k, v) == [s EXCEPT !.socket_status[k] = v]

\* The connids the modem answers AT+USOCR with: the first socket, and one
\* sara_socket_connect turns down.
SaraConnids == {0, SARA_NSOCKETS}

\* sara_socket_connect: the request, then AT+USOCR, whose response carries
\* the connid, and AT+USOCO; the connid is returned when both succeed.
sara_socket_connect ==
    /\ ops = "sara"
    /\ modem.pdp_failures < MaxFailures
    /\ \E open \in Outcomes, command \in Outcomes, connid \in SaraConnids :
          LET created == open = "ok" /\ connid < SARA_NSOCKETS
              connected == created /\ command = "ok"
          IN  /\ modem' = PdpRequest(modem, open)
              /\ socks' = IF connected THEN SetStatus(socks, connid, SOCKET_STATUS_CONNECTED)
                           ELSE IF created THEN SetStatus(socks, connid, SOCKET_STATUS_UNKNOWN)
                           ELSE socks
              /\ mlog' = PdpLog("sara_socket_connect", open,
                                IF connected THEN connid ELSE -1)
    /\ PdpFrame

NextPdp ==
    \/ cellular_pdp_success
    \/ cellular_pdp_request
    \/ sim800_socket_connect
    \/ sara_socket_connect

InitPdp ==
    /\ InitCore /\ \E d \in {"sim800", "sara"} : SockInit(d)
    /\ RecvInit("sim7020")
    /\ FEA_SIM800_BT = FALSE /\ track = FALSE /\ script = <<>>

SpecPdp == InitPdp /\ [][NextPdp]_vars

(***************************************************************************)
(* Sockets: the socket_status array of a driver's struct, written by the   *)
(* driver's scan_line on a socket notification, by socket_connect and by   *)
(* socket_close.                                                           *)
(***************************************************************************)
m6315_urc_responses == {
    <<"+", "Q", "I", "R", "D", "I", ":">>,
    <<"+", "P", "D", "P", ":", " ", "D", "E", "A", "C", "T">>,
    <<"+", "S", "A", "P", "B", "R", " ", "1", ":", " ", "D", "E", "A", "C", "T">>,
    <<"*", "P", "S", "N", "W", "I", "D", ":", " ">>,
    <<"*", "P", "S", "U", "T", "T", "Z", ":", " ">>,
    <<"+", "C", "T", "Z", "V", ":", " ">>,
    <<"D", "S", "T", ":", " ">>,
    <<"+", "C", "I", "E", "V", ":", " ">>,
    <<"R", "D", "Y">>,
    <<"+", "C", "F", "U", "N", ":">>,
    <<"+", "C", "P", "I", "N", ":">>,
    <<"C", "a", "l", "l", " ", "R", "e", "a", "d", "y">>,
    <<"S", "M", "S", " ", "R", "e", "a", "d", "y">>,
    <<"N", "O", "R", "M", "A", "L", " ", "P", "O", "W", "E", "R", " ", "D", "O", "W", "N">>,
    <<"U", "N", "D", "E", "R", "-", "V", "O", "L", "T", "A", "G", "E", " ", "P", "O", "W", "E", "R", " ", "D", "O", "W", "N">>,
    <<"U", "N", "D", "E", "R", "-", "V", "O", "L", "T", "A", "G", "E", " ", "W", "A", "R", "N", "N", "I", "N", "G">>,
    <<"O", "V", "E", "R", "-", "V", "O", "L", "T", "A", "G", "E", " ", "P", "O", "W", "E", "R", " ", "D", "O", "W", "N">>,
    <<"O", "V", "E", "R", "-", "V", "O", "L", "T", "A", "G", "E", " ", "W", "A", "R", "N", "N", "I", "N", "G">>,
    <<"O", "p", "e", "r", "a", "t", "o", "r">>}

CONNECT_OK == <<"C", "O", "N", "N", "E", "C", "T", " ", "O", "K">>
CONNECT_FAIL == <<"C", "O", "N", "N", "E", "C", "T", " ", "F", "A", "I", "L">>
ALREADY_CONNECT == <<"A", "L", "R", "E", "A", "D", "Y", " ", "C", "O", "N", "N", "E", "C", "T">>
CLOSED == <<"C", "L", "O", "S", "E", "D">>

\* What a scan_line stores: socket_status[k] = v, or with k = -1 nothing.
NoWrite == [k |-> -1, v |-> SOCKET_STATUS_UNKNOWN]

\* The store a socket notification with this status text makes.
StatusWrite(socket, text) ==
    IF StrEq(text, CONNECT_OK) THEN [k |-> socket, v |-> SOCKET_STATUS_CONNECTED]
    ELSE IF StrEq(text, CONNECT_FAIL) \/ StrEq(text, ALREADY_CONNECT) \/ StrEq(text, CLOSED)
         THEN [k |-> socket, v |-> SOCKET_STATUS_ERROR]
         ELSE NoWrite

\* The SIM800 driver's scan_line: its store into socket_status.
sim800_scan_line_write(l) ==
    IF at_prefix_in_table(l, sim800_urc_responses) THEN NoWrite
    ELSE IF /\ Len(l) >= 1
            /\ DigitOf(l[1]) >= 0 /\ DigitOf(l[1]) <= SIM800_NSOCKETS
            /\ StrnEq(StrFrom(l, 1), <<",", " ">>, 2)
         THEN StatusWrite(DigitOf(l[1]), StrFrom(l, 3))
         ELSE NoWrite

\* The M6315 driver's scan_line: its store into socket_status.
m6315_scan_line_write(l) ==
    IF at_prefix_in_table(l, m6315_urc_responses) THEN NoWrite
    ELSE IF /\ Len(l) >= 2
            /\ DigitOf(l[1]) >= 0 /\ DigitOf(l[1]) <= M6315_NSOCKETS
            /\ l[2] = ","
         THEN StatusWrite(DigitOf(l[1]),
                          IF Len(l) >= 3 /\ l[3] = " " THEN StrFrom(l, 3) ELSE StrFrom(l, 2))
         ELSE NoWrite

\* The SARA driver's scan_line stores nothing.
ScanLineWrite(d, l) ==
    IF d = "sim800" THEN sim800_scan_line_write(l)
    ELSE IF d = "m6315" THEN m6315_scan_line_write(l)
    ELSE NoWrite

\* The socket notifications the modem sends: digits below, at and above the
\* sizes of the two arrays, with and without the space, and a text that is
\* no status.
NoteDigits == {"5", "6", "8", "9"}
NoteTexts == {CONNECT_OK, CLOSED, <<"B", "U", "S", "Y">>}
SocketLines ==
    {<<d>> \o sep \o t : d \in NoteDigits, sep \in {<<",", " ">>, <<",">>}, t \in NoteTexts}

SockFrame ==
    UNCHANGED <<chan, callerv, readerv, ctlv, hist, scanv, extv, fmtv, sendv, freev,
                bufv, notev, parsv, dop, dpc, dlog, dst, dret, active, modem, mlog, ops, recv>>

\* The parser hands a line to the driver's scan_line.  A store past the end
\* of socket_status lands in the struct's next field, spp_status, or
\* outside the struct.
driver_scan_line(l) ==
    LET w == ScanLineWrite(ops, l)
    IN  /\ \/ /\ w.k >= 0 /\ w.k < NSOCKETS(ops)
              /\ socks' = SetStatus(socks, w.k, w.v)
           \/ /\ w.k >= NSOCKETS(ops)
              /\ \/ socks' = [socks EXCEPT !.spp_status = w.v]
                 \/ socks' = socks
           \/ /\ w.k < 0
              /\ socks' = socks
        /\ slog' = [op |-> "scan_line", k |-> w.k, ret |-> 0]
        /\ SockFrame

\* sim800_socket_close(modem, connid) without FEA_SIM800_BT, the response of
\* AT+CIPCLOSE given: the struct after it and what it returns.
sim800_socket_close(s, connid, r) ==
    IF connid >= 0 /\ connid < SIM800_NSOCKETS
    THEN IF SimpleResult(r) = 0
         THEN [socks |-> SetStatus(s, connid, SOCKET_STATUS_UNKNOWN), ret |-> 0]
         ELSE [socks |-> s, ret |-> SimpleResult(r)]
    ELSE [socks |-> s, ret |-> 0]

\* m6315_socket_close(modem, connid), the response to AT+QICLOSE given.
m6315_socket_close(s, connid, r) ==
    IF connid >= 0 /\ connid < M6315_NSOCKETS
    THEN IF SimpleResult(r) = 0
         THEN [socks |-> SetStatus(s, connid, SOCKET_STATUS_UNKNOWN), ret |-> 0]
         ELSE [socks |-> s, ret |-> SimpleResult(r)]
    ELSE [socks |-> s, ret |-> 0]

\* sara_socket_close(modem, connid) for a connid of the array, the response
\* to AT+USOCL given.
sara_socket_close(s, connid, r) ==
    IF s.socket_status[connid] = SOCKET_STATUS_CONNECTED
    THEN [socks |-> SetStatus(s, connid, SOCKET_STATUS_UNKNOWN), ret |-> SimpleResult(r)]
    ELSE [socks |-> s, ret |-> 0]

\* The connids socket_close is called with: the first and the last socket
\* of the driver and, where the driver tests its argument, the one after.
CloseConnids(d) ==
    IF d = "sara" THEN {0, SARA_NSOCKETS - 1}
    ELSE {0, NSOCKETS(d) - 1, NSOCKETS(d)}

\* modem->ops->socket_close(modem, connid)
socket_close ==
    /\ \E connid \in CloseConnids(ops), r \in DriverResponses :
          LET c == IF ops = "sim800" THEN sim800_socket_close(socks, connid, r)
                   ELSE IF ops = "m6315" THEN m6315_socket_close(socks, connid, r)
                   ELSE sara_socket_close(socks, connid, r)
          IN  /\ socks' = c.socks
              /\ slog' = [op |-> "socket_close", k |-> connid, ret |-> c.ret]
    /\ SockFrame

\* The slot a socket_connect picks: the first one whose status is UNKNOWN,
\* -1 when there is none.
FirstUnknown(s, n) ==
    IF \E k \in 0 .. n - 1 : s.socket_status[k] = SOCKET_STATUS_UNKNOWN
    THEN CHOOSE k \in 0 .. n - 1 :
            /\ s.socket_status[k] = SOCKET_STATUS_UNKNOWN
            /\ \A j \in 0 .. k - 1 : s.socket_status[j] # SOCKET_STATUS_UNKNOWN
    ELSE -1

\* What the modem does with AT+QIOPEN: it reports the socket connected, it
\* reports an error each time, or it reports nothing.
ConnectOutcomes == {"connected", "error", "none"}

\* m6315_socket_connect(modem, host, port) with a host: the slot picked, the
\* status the socket's notifications leave in it, the connid or -1 returned.
m6315_socket_connect ==
    /\ ops = "m6315"
    /\ \E note \in ConnectOutcomes :
          LET connid == FirstUnknown(socks, M6315_NSOCKETS)
          IN  /\ socks' = IF connid < 0 THEN socks
                          ELSE IF note = "connected"
                               THEN SetStatus(socks, connid, SOCKET_STATUS_CONNECTED)
                               ELSE IF note = "error"
                                    THEN SetStatus(socks, connid, SOCKET_STATUS_ERROR)
                                    ELSE SetStatus(socks, connid, SOCKET_STATUS_UNKNOWN)
              /\ slog' = [op |-> "socket_connect", k |-> connid,
                          ret |-> IF connid >= 0 /\ note = "connected" THEN connid ELSE -1]
    /\ SockFrame

InitSock ==
    /\ InitCore /\ \E d \in {"sim800", "m6315", "sara"} : SockInit(d)
    /\ RecvInit("sim7020")
    /\ FEA_SIM800_BT = FALSE /\ track = FALSE /\ script = <<>>

NextSock ==
    \/ \E l \in SocketLines : driver_scan_line(l)
    \/ socket_close
    \/ m6315_socket_connect
    \/ sara_socket_connect

SpecSock == InitSock /\ [][NextSock]_vars

(***************************************************************************)
(* Receiving on the NB-IoT socket: socket_recv of the SIM7020 driver and   *)
(* of the two ME3616 drivers issues an empty command under a scanner that  *)
(* keeps a static flag, reading.                                           *)
(***************************************************************************)
AT_RESPONSE_HEXDATA_FOLLOWS == "AT_RESPONSE_HEXDATA_FOLLOWS"

sim7020_urc_responses == {<<"+", "C", "M", "2", "M", "C", "L", "I", ":">>}

\* The table of the first ME3616 driver ...
me3616_urc_responses == {<<"*", "M", "N", "B", "I", "O", "T", "E", "V", "E", "N", "T", ":">>, <<"+", "M", "2", "M", "C", "L", "I", ":">>}

\* ... and of the second.
me3616_urc_responses_ip ==
    {<<"+", "I", "P", ":">>,
    <<"*", "M", "N", "B", "I", "O", "T", "E", "V", "E", "N", "T", ":">>,
    <<"+", "M", "2", "M", "C", "L", "I", ":">>,
    <<"+", "M", "2", "M", "C", "L", "I", "R", "E", "C", "V", ":">>}

CM2MCLIRECV == <<"+", "C", "M", "2", "M", "C", "L", "I", "R", "E", "C", "V", ":", " ">>
M2MCLIRECV_COLON == <<"+", "M", "2", "M", "C", "L", "I", "R", "E", "C", "V", ":">>
M2MCLIRECV == <<"+", "M", "2", "M", "C", "L", "I", "R", "E", "C", "V">>

\* strstr(a, b) finds b in a.
StrStr(a, b) == \E k \in 0 .. Len(a) - Len(b) : SubSeq(a, k + 1, k + Len(b)) = b

\* A scanner's verdict on a line and its static reading after the line.
Verdict(t, r) == [type |-> t, reading |-> r]

\* scanner_cm2mclirecv of the SIM7020 driver, reading being r before.
scanner_cm2mclirecv(l, r) ==
    IF at_prefix_in_table(l, sim7020_urc_responses) THEN Verdict(AT_RESPONSE_URC, r)
    ELSE IF StrnEq(l, CM2MCLIRECV, Len(CM2MCLIRECV))
         THEN Verdict(AT_RESPONSE_HEXDATA_FOLLOWS, TRUE)
         ELSE IF r THEN Verdict(AT_RESPONSE_FINAL, r)
              ELSE Verdict(AT_RESPONSE_UNKNOWN, r)

\* scanner_clirecv of the first ME3616 driver.
scanner_clirecv(l, r) ==
    IF at_prefix_in_table(l, me3616_urc_responses) THEN Verdict(AT_RESPONSE_URC, r)
    ELSE IF StrStr(l, M2MCLIRECV_COLON)
         THEN Verdict(AT_RESPONSE_HEXDATA_FOLLOWS, TRUE)
         ELSE IF r THEN Verdict(AT_RESPONSE_FINAL, r)
              ELSE Verdict(AT_RESPONSE_UNKNOWN, r)

\* scanner_clirecv of the second ME3616 driver.
scanner_clirecv_ip(l, r) ==
    IF /\ at_prefix_in_table(l, me3616_urc_responses_ip)
       /\ ~StrnEq(l, M2MCLIRECV, Len(M2MCLIRECV))
    THEN Verdict(AT_RESPONSE_URC, r)
    ELSE IF StrnEq(l, M2MCLIRECV, Len(M2MCLIRECV))
         THEN Verdict(AT_RESPONSE_HEXDATA_FOLLOWS, TRUE)
         ELSE IF r THEN Verdict(AT_RESPONSE_FINAL, r)
              ELSE Verdict(AT_RESPONSE_UNKNOWN, r)

RecvDrivers == {"sim7020", "me3616", "me3616_ip"}

\* The command scanner socket_recv installs.
RecvScanner(d, l, r) ==
    IF d = "sim7020" THEN scanner_cm2mclirecv(l, r)
    ELSE IF d = "me3616" THEN scanner_clirecv(l, r)
    ELSE scanner_clirecv_ip(l, r)

\* Whether the line is the driver's receive header.
RecvHeader(d, l) ==
    IF d = "sim7020" THEN StrnEq(l, CM2MCLIRECV, Len(CM2MCLIRECV))
    ELSE IF d = "me3616" THEN StrStr(l, M2MCLIRECV_COLON)
    ELSE StrnEq(l, M2MCLIRECV, Len(M2MCLIRECV))

\* The lines the modem sends during a receive: the headers, a payload, an
\* error, notifications of the tables.
RecvLines == {<<"+", "C", "M", "2", "M", "C", "L", "I", "R", "E", "C", "V", ":", " ">>,
             <<"+", "M", "2", "M", "C", "L", "I", "R", "E", "C", "V", ":">>,
             <<"4", "1", "4", "2">>,
             <<"E", "R", "R", "O", "R">>,
             <<"+", "C", "M", "2", "M", "C", "L", "I", ":", " ", "1">>,
             <<"+", "M", "2", "M", "C", "L", "I", ":", " ", "1">>}

\* The lines one receive command takes at most.
MaxLines == 3

RecvFrame ==
    UNCHANGED <<chan, callerv, readerv, ctlv, hist, scanv, extv, fmtv, sendv, freev,
                bufv, notev, parsv, dop, dpc, dlog, dst, dret, active, modem, mlog,
                ops, socks, slog>>

\* socket_recv on the connected NB-IoT socket: the scanner installed and the
\* empty command issued.
socket_recv ==
    /\ recv.pc = "idle"
    /\ recv' = [recv EXCEPT !.pc = "await", !.hdr = FALSE, !.type = "none",
                            !.line = <<>>, !.n = 0]
    /\ RecvFrame

\* A line of the modem handed to the command scanner; a Final line completes
\* the response and the command returns.
recv_line(l) ==
    /\ recv.pc = "await"
    /\ recv.n < MaxLines
    /\ LET v == RecvScanner(recv.drv, l, recv.reading)
       IN  recv' = [recv EXCEPT !.reading = v.reading,
                                !.type = v.type,
                                !.line = l,
                                !.n = @ + 1,
                                !.hdr = @ \/ RecvHeader(recv.drv, l),
                                !.pc = IF v.type = AT_RESPONSE_FINAL THEN "idle" ELSE @]
    /\ RecvFrame

\* The command returns without a Final line of the scanner: by its timeout,
\* or by a line final for the parser.
recv_return ==
    /\ recv.pc = "await"
    /\ recv' = [recv EXCEPT !.pc = "idle"]
    /\ RecvFrame

InitRecv ==
    /\ InitCore /\ SockInit("sim800") /\ \E d \in RecvDrivers : RecvInit(d)
    /\ FEA_SIM800_BT = FALSE /\ track = FALSE /\ script = <<>>

NextRecv ==
    \/ socket_recv
    \/ \E l \in RecvLines : recv_line(l)
    \/ recv_return

SpecRecv == InitRecv /\ [][NextRecv]_vars

\* Commands and the reader task, the history of deliveries recorded.
InitStale == InitBase /\ FEA_SIM800_BT = FALSE /\ track = TRUE /\ script = <<>>

NextStale ==
    \/ ~StorePending /\ \/ \E t \in {0, 1} : at_set_timeout(1, t)
                         \/ at_open
                         \/ at_close
                         \/ at_close_release
                         \/ CommandStep(1)
                         \/ ReaderStep
    \/ StorePending /\ StoreStep

SpecStale == InitStale /\ [][NextStale]_vars

(***************************************************************************)
(* The claims about the command lifecycle.                                 *)
(***************************************************************************)
Max(a, b) == IF a >= b THEN a ELSE b
Returned == pc[1] = "ret"
ReturnedNull == Returned /\ retWhy # "response"
PortStayedOpen == closedAt = "no"

\* C1: no completion is lost: when handle_response runs after the command
\* bytes were written, while the waiter still has wait budget left and with
\* the port open all along, the command returns the response, not null.
C1_NoCompletionLost ==
    (Returned /\ hr = "fresh" /\ PortStayedOpen) => retWhy = "response"

\* C2: a command whose port stayed open returns null only when all
\* `timeout` one-second waits have elapsed: the give of a handle_response
\* that belongs to an earlier command never makes it stop waiting and
\* return null before that.
C2_NullOnlyAfterTimeout ==
    (Returned /\ retWhy = "timeout" /\ timeout >= 0 /\ PortStayedOpen
              /\ hr \in {"none", "old"})
        => elapsed = timeout

\* C3: when handle_response does not run during the command and the port
\* stays open, the command returns null by way of the timeout branch, with
\* the parser back to Idle and the per-command scanner cleared.
C3_TimeoutResets ==
    (Returned /\ retWhy \notin {"overlong", "closed_entry"}
              /\ hr = "none" /\ PortStayedOpen)
        => (retWhy = "timeout" /\ pstate = "Idle" /\ command_scanner = NoScanner)

\* C4: a call that finds the open flag false returns null at once: it does
\* not sleep the delay, arm the parser or write to the UART, and it leaves
\* the flags, the semaphore and the response buffer as they are.
C4_ClosedOnEntry ==
    [][(pc[1] = "idle" /\ pc'[1] # "idle" /\ ~flags.open)
        => /\ pc'[1] = "ret"
           /\ retWhy' \in {"closed_entry", "overlong"}
           /\ ~slept' /\ ~wrote'
           /\ pstate' = pstate
           /\ flags' = flags /\ xSem' = xSem /\ response' = response]_vars

C4_Witness ==
    /\ Returned /\ retWhy = "closed_entry"
    /\ delay # 0 /\ response = "resp" /\ flags.waiting

\* C5: when the port is closed while the command waits (and not opened
\* again), the command returns null through the closed-port branch, which
\* does not reset the parser.
C5_CloseUnblocks ==
    (Returned /\ closedAt = "wait") => retWhy = "closed_check"

\* C6: a wait slice is performed only while the remaining timeout is
\* greater than zero: at most max(T, 0) slices for a configured timeout T.
C6_SlicesBounded ==
    pc[1] = "take" => elapsed + 1 <= Max(timeout, 0)

\* C7: at most one command is between arming the parser and returning.
Armed(c) ==
    pc[c] \in {"write", "w_ld", "w_st", "clr", "loop", "take",
               "chk_open", "chk_wait", "reset"}

C7_OneCommandInFlight == ~(Armed(1) /\ Armed(2))

\* C8: at_parser_await_response and at_parser_reset, called by the
\* command-issuing context, never execute while the reader is inside
\* at_parser_feed (handle_response included).
InFeed == rpc \in {"feed_mid", "hr_copy", "hr_nul", "hr_st", "hr_give"}

C8_NoParserCallDuringFeed ==
    [][((pc[1] = "arm" /\ pc'[1] = "write") \/ (pc[1] = "reset" /\ pc'[1] = "ret"))
        => ~InFeed]_vars

\* C9: whenever a command returns, with any outcome, command_scanner is
\* null again.
C9_ScannerConsumed == Returned => command_scanner = NoScanner

\* C10: for every line scanned, scan_line returns the per-command scanner's
\* verdict when that is not Unknown, otherwise the installed default
\* scanner's verdict, otherwise Unknown.
PerCommandVerdict ==
    IF command_scanner = NoScanner THEN AT_RESPONSE_UNKNOWN
    ELSE scanner_cipstatus(line)
DefaultInstalled == cbs = "sim800_callbacks"
ExpectedVerdict ==
    IF PerCommandVerdict # AT_RESPONSE_UNKNOWN THEN PerCommandVerdict
    ELSE IF DefaultInstalled THEN sim800_scan_line(line)
    ELSE AT_RESPONSE_UNKNOWN
C10_ScanLineOrder ==
    [][<<line, type>>' # <<line, type>> => type' = ExpectedVerdict']_vars

\* The line "OK" was scanned with scanner_cipstatus and the SIM800 callbacks
\* installed, and came out Intermediate.
C10_Witness ==
    /\ line = <<"O", "K">>
    /\ command_scanner = "scanner_cipstatus"
    /\ cbs = "sim800_callbacks"
    /\ type = AT_RESPONSE_INTERMEDIATE

\* C11: no URC handler, which runs on the reader task, calls a channel
\* operation: the reader task never writes to the UART.
C11_ReaderNeverWrites == ~rwrote

\* C12: at_config returns 0 only when a probe's response begins with
\* "+<option>: <value>", -1 when all attempts are exhausted without a
\* matching probe, -2 when a probe gets no response.
ConfigDone == cfg = "done"
LastEvent == IF clog = <<>> THEN "" ELSE clog[Len(clog)]
C12_ConfigResult ==
    ConfigDone =>
        /\ cret = 0 => LastEvent = "match"
        /\ LastEvent = "exhausted" => cret = -1
        /\ LastEvent = "null" => cret = -2

\* C13: at_config performs at most `attempts` rounds; each round sends the
\* probe first, the set command only after a probe that did not match,
\* then waits one second; nothing is sent after a probe that matched or
\* got no response.
Count(event) == Cardinality({i \in 1 .. Len(clog) : clog[i] = event})
C13_ConfigRounds ==
    /\ Count("probe") <= cargs.attempts
    /\ \A i \in 1 .. Len(clog) :
          /\ clog[i] = "probe" => (i = 1 \/ clog[i - 1] = "delay")
          /\ clog[i] \in {"match", "mismatch", "null", "overflow"} =>
                (i > 1 /\ clog[i - 1] = "probe")
          /\ clog[i] = "set" => (i > 1 /\ clog[i - 1] = "mismatch")
          /\ clog[i] = "delay" => (i > 1 /\ clog[i - 1] = "set")
          /\ clog[i] \in {"match", "null", "overflow", "exhausted"} => i = Len(clog)

\* Two rounds were made: probe, set, wait, probe, and the second probe
\* matched.
C13_Witness ==
    /\ ConfigDone /\ cargs.attempts = 2
    /\ clog = <<"probe", "mismatch", "set", "delay", "probe", "match">>

\* C14: at_command on a port that is and stays open transmits the formatted text followed
\* by exactly one '\r' whenever the text and the '\r' fit in
\* AT_COMMAND_LENGTH bytes; otherwise it returns null without transmitting
\* and without arming the parser.
C14_FormattedLine ==
    (Returned /\ flen >= 0 /\ wasOpen /\ PortStayedOpen) =>
        IF flen + 1 <= AT_COMMAND_LENGTH
        THEN sent = Text(flen) \o <<"\r">>
        ELSE retWhy = "overlong" /\ sent = <<>> /\ ~armed

\* C15: at_send_hex writes, in input order, the two-character uppercase
\* hexadecimal encoding, high nibble first, of every input byte, in writes
\* of at most 40 input bytes (80 characters) each; it returns false as
\* soon as one write fails and true otherwise.
HexTable == <<"0", "1", "2", "3", "4", "5", "6", "7", "8", "9",
              "A", "B", "C", "D", "E", "F">>
HexOf(data) ==
    [k \in 1 .. 2 * Len(data) |->
        IF k % 2 = 1 THEN HexTable[(data[(k + 1) \div 2] \div 16) + 1]
        ELSE HexTable[(data[k \div 2] % 16) + 1]]
RECURSIVE Concat(_)
Concat(ws) == IF ws = <<>> THEN <<>> ELSE ws[1].data \o Concat(SubSeq(ws, 2, Len(ws)))
HexDone == spc = "done" /\ skind = "hex"
C15_HexEncoding ==
    HexDone =>
        /\ \A i \in 1 .. Len(swrites) :
              /\ Len(swrites[i].data) <= 2 * 40
              /\ (i < Len(swrites) => swrites[i].ok /\ Len(swrites[i].data) = 2 * 40)
        /\ Concat(swrites) = SubSeq(HexOf(sdata), 1, Len(Concat(swrites)))
        /\ sret <=> /\ Concat(swrites) = HexOf(sdata)
                     /\ \A i \in 1 .. Len(swrites) : swrites[i].ok

\* 81 bytes were sent in three writes of 40, 40 and 1 bytes, all taken.
C15_Witness ==
    /\ HexDone /\ sret /\ Len(sdata) = 81
    /\ Len(swrites) = 3 /\ Len(swrites[3].data) = 2

\* C16: at_send, at_send_raw and at_send_hex only write to the UART: no
\* step of them arms the parser or changes the parser state, the flags,
\* the response signal, the response buffer or the per-command scanner;
\* a send that found the port closed whenever it looked has written
\* nothing, and it returns false unless it is at_send_hex with no bytes
\* to send.
SendStepTaken == sendv' # sendv
SendEnds == spc # "done" /\ spc' = "done"
C16_SendFrame ==
    [][SendStepTaken =>
         /\ pstate' = pstate /\ armed' = armed /\ flags' = flags
         /\ xSem' = xSem /\ response' = response
         /\ command_scanner' = command_scanner
         /\ (SendEnds /\ sclosed') =>
               /\ swrites' = <<>>
               /\ sret' = FALSE \/ (skind' = "hex" /\ sdata' = <<>>)]_vars

\* C16 as stated: every send on a closed port returns false.
C16_ClosedPortFalse ==
    [][(SendStepTaken /\ SendEnds /\ sclosed') =>
           (swrites' = <<>> /\ sret' = FALSE)]_vars

\* at_send_hex of 81 bytes ended on a closed port while a command of
\* another task was armed: false, nothing written.
C16_Witness ==
    /\ spc = "done" /\ sclosed /\ skind = "hex" /\ Len(sdata) = 81
    /\ sret = FALSE /\ swrites = <<>>
    /\ pstate = "Await"

\* C17: at_close is idempotent: called, directly or through at_free, on a
\* channel that holds no UART (closed already or never opened) it uses no
\* UART handle and returns.
C17_CloseIdempotent ==
    [][(kpc = "close_rel" /\ xUART = NoUart) => kpc' \in {"close_rel", "idle"}]_vars

\* C18: at_free clears the running flag, then closes the port, then
\* deletes the reader task, then deletes the semaphore.
C18_ShutdownOrder ==
    fpc = "freed" => flog = <<"running", "close", "task", "sem">>

\* C19: whenever a command returns non-null, the buffer holds at most
\* AT_BUF_SIZE - 1 response bytes followed by a NUL that lies inside the
\* buffer, whatever length the parser reported: nothing was written outside
\* the buffer and one of its cells is NUL.
NulInside == \E k \in 0 .. AT_BUF_SIZE - 1 : buf[k] = "nul"

C19_NulInsideBuffer ==
    (Returned /\ retWhy = "response") => (NulInside /\ ~over)

\* A command has returned a response that the parser reported longer than
\* the buffer, and that fills the buffer up to its last cell.
C19_Witness ==
    /\ Returned /\ retWhy = "response"
    /\ plen > AT_BUF_SIZE - 1
    /\ rpc = "top"
    /\ \A k \in 0 .. AT_BUF_SIZE - 2 : buf[k] = "byte"

\* C20: the buffer a command returned is not written before the next
\* command is called: while the caller holds a non-null result,
\* handle_response runs neither its memcpy nor its store of the NUL.
BufferWritten ==
    \/ rpc = "hr_copy" /\ rpc' = "hr_nul"
    \/ rpc = "hr_nul" /\ rpc' = "hr_st"

C20_BufferStable ==
    [][(Returned /\ retWhy = "response") => ~BufferWritten]_vars

\* C21: after a command returned null, the response the next command
\* returns was collected after that command armed the parser: the
\* handle_response that completes it is not one for a line received before
\* the arming.
C21_NoStaleResponse ==
    (Returned /\ retWhy = "response" /\ prevNull) => ~dprev

\* C22: with the inter-command delay never set, or set to zero with
\* at_set_delay(at, 0), a command does not sleep before it arms the parser.
DelayOfZero == delay = 0 \/ delay = pdMS_TO_TICKS(0) + 1

C22_NoSleepAtZero ==
    (AnyInFlight /\ DelayOfZero) => ~slept

\* C23: a driver operation in which a command got no response returns -2:
\* it does not fault on the null response and does not return 0, -1 or a
\* count.
NoResponse == \E i \in 1 .. Len(dlog) : dlog[i] = "null"

C23_NoResponseIsMinusTwo ==
    /\ dst # "fault"
    /\ (dst = "ret" /\ NoResponse) => dret = -2

(***************************************************************************)
(* C24: a line classified as a URC while a command awaits its response is  *)
(* passed to the URC handler exactly once and is not appended to the       *)
(* response; the parser stays awaiting, and the response the command gets  *)
(* with the later final line holds no URC text.                            *)
(***************************************************************************)
UrcWhileAwaiting ==
    /\ pst = "Await" /\ lbuf # <<>>
    /\ spos < Len(script) /\ script[spos + 1] = "\n" /\ spos' = spos + 1
    /\ Classify(lbuf, command_scanner, cbs).t = AT_RESPONSE_URC

Contains(r, l) == \E k \in 0 .. Len(r) - Len(l) : SubSeq(r, k + 1, k + Len(l)) = l

HandledOnce == urcs = IF urc = RdyLine /\ rpc # "urc_cb" THEN <<RdyLine>> ELSE <<>>

C24_UrcNotInResponse ==
    /\ [][UrcWhileAwaiting =>
            /\ rpc' = "urc_cb" /\ urc' = lbuf
            /\ rbuf' = rbuf /\ pst' = "Await"]_vars
    /\ [](HandledOnce /\ (urc = RdyLine => \A i \in 1 .. Len(resp) : ~Contains(resp[i], urc)))

C24_Witness ==
    /\ Returned /\ retWhy = "response"
    /\ resp = <<FirstLine>> /\ urcs = <<RdyLine>>

(***************************************************************************)
(* The response the parser passes to handle_response is the intermediate   *)
(* lines and the final line classified since the parser was armed, joined  *)
(* by single newlines, the OK line left out.                               *)
(***************************************************************************)
RECURSIVE Join(_)
Join(ls) ==
    IF ls = <<>> THEN <<>>
    ELSE IF Len(ls) = 1 THEN ls[1]
    ELSE ls[1] \o LF \o Join(Tail(ls))

IsFinalOk(l) == Classify(l, command_scanner, cbs).t = AT_RESPONSE_FINAL_OK
IsFinal(l) == Classify(l, command_scanner, cbs).t = AT_RESPONSE_FINAL
NotOk(l) == ~IsFinalOk(l)
Completes == script # <<>> /\ rpc = "top" /\ rpc' = "hr_copy"

\* The lines are intermediate lines and one final line at the end, and the
\* response is these lines joined, an OK line left out.
JoinedLines(ls, r) ==
    /\ ls # <<>>
    /\ IsFinalOk(ls[Len(ls)]) \/ IsFinal(ls[Len(ls)])
    /\ \A i \in 1 .. Len(ls) - 1 : ~IsFinalOk(ls[i]) /\ ~IsFinal(ls[i])
    /\ r = Join(SelectSeq(ls, NotOk))

ParserJoinsLines == [][Completes => JoinedLines(lines, resp[1])']_vars

ParserJoinsLinesSeen ==
    /\ script # <<>> /\ rpc = "hr_copy" /\ pst = "Idle"
    /\ lines = <<FirstLine, SecondLine, OkLine>>
    /\ resp = <<FirstLine \o LF \o SecondLine>>

(***************************************************************************)
(* C25: the response a command returns is exactly the intermediate and     *)
(* final lines that arrived for this command, since it armed the parser,   *)
(* in order, joined by single newlines, with no newline at the end and     *)
(* without the OK line.                                                    *)
(***************************************************************************)
C25_ResponseIsOwnLines ==
    (Returned /\ retWhy = "response") =>
        \E k \in 1 .. Len(lines) : JoinedLines(SubSeq(lines, 1, k), resp[1])

(***************************************************************************)
(* C26: a data prompt expected with at_expect_dataprompt applies to the    *)
(* next command only: when a command returns, by the prompt's match, a     *)
(* final line, a timeout or otherwise, no expectation is left for a later  *)
(* command.                                                                *)
(***************************************************************************)
CommandReturns == pc[1] # "ret" /\ pc'[1] = "ret"

C26_ExpectationConsumed == [][CommandReturns => prompt' = <<>>]_vars

(***************************************************************************)
(* C27: after the line +QIRD: 1,TCP,n is classified as raw data follows,   *)
(* exactly the next n bytes go into the response buffer as they are,       *)
(* behind the header line and its newline: the CR, LF and NUL among them   *)
(* end no line and are not dropped, and the byte after the n-th is parsed  *)
(* as the start of a line again.                                           *)
(***************************************************************************)
HeaderEnd == Len(QirdLine \o LF)
Announced == Len(RawBytes)

RawCopied ==
    pst = "Raw" =>
        \E k \in 0 .. Announced - 1 :
            /\ left = Announced - k
            /\ spos = HeaderEnd + k
            /\ rbuf = QirdLine \o LF \o SubSeq(script, HeaderEnd + 1, HeaderEnd + k)
            /\ lbuf = <<>>

RawByte ==
    (pst = "Raw" /\ spos' = spos + 1) =>
        /\ lines' = lines /\ lbuf' = lbuf
        /\ IF left > 1
           THEN pst' = "Raw" /\ rbuf' = Append(rbuf, script[spos + 1])
           ELSE pst' = "Await" /\ rbuf' = QirdLine \o LF \o RawBytes \o LF

RawInResponse ==
    (Completes /\ lines' = <<QirdLine, OkLine>>) => resp' = <<QirdLine \o LF \o RawBytes>>

MostRecent(l) ==
    IF Len(l) <= LINE_MAX THEN l ELSE SubSeq(l, Len(l) - LINE_MAX + 1, Len(l))

ScriptLine == SubSeq(script, 1, Len(script) - Len(CRLF))

C28_LineBufferHeadDrop ==
    /\ LINE_MAX = 79
    /\ Len(lbuf) <= LINE_MAX
    /\ spos <= Len(ScriptLine) => lbuf = MostRecent(SubSeq(script, 1, spos))
    /\ \A i \in 1 .. Len(lines) : lines[i] = MostRecent(ScriptLine)
    /\ urc \in {<<>>, MostRecent(ScriptLine)}

C28_Witness ==
    /\ Len(ScriptLine) > LINE_MAX
    /\ lines = <<MostRecent(ScriptLine)>>
    /\ urc = MostRecent(ScriptLine)
    /\ urcs = <<urc>>

(***************************************************************************)
(* C29: the reader task's store of the busy flag, set or cleared, changes  *)
(* no other flag: it does not undo the waiting = true of a command or the  *)
(* open = false of at_close that another task stored in the meantime.      *)
(***************************************************************************)
ReaderStoresBusy ==
    \/ rpc = "busy_st" /\ rpc' # "busy_st"
    \/ rpc = "unbusy_st" /\ rpc' # "unbusy_st"

C29_FlagWritesIndependent ==
    [][ReaderStoresBusy =>
          /\ flags'.waiting = flags.waiting
          /\ flags'.open = flags.open
          /\ flags'.running = flags.running]_vars

(***************************************************************************)
(* C30: with no callback table installed, or with a table whose handle_urc *)
(* or scan_line entry is null, a received line is classified and           *)
(* dispatched without a null pointer being dereferenced: the reader task   *)
(* does not fault, and no handler is called for the line.                  *)
(***************************************************************************)
C30_NullCallbacksSafe ==
    [][(rpc = "urc_cb" /\ cbs # "sim800_callbacks" /\ rpc' # "urc_cb")
        => (rpc' = "top" /\ urcs' = urcs)]_vars

(***************************************************************************)
(* C31: from pdp_failures = 0 and pdp_threshold = 3, cellular_pdp_request  *)
(* calls pdp_close on the requests that find pdp_failures >= pdp_threshold *)
(* and multiplies the threshold by 3: with no success in between, the      *)
(* closes happen at 3, 9, 27, ... failures.  A failed pdp_open adds one    *)
(* failure and the request returns -1.                                     *)
(***************************************************************************)
RECURSIVE Pow3(_)
Pow3(i) == IF i = 0 THEN 1 ELSE 3 * Pow3(i - 1)

ClosesAtPowers ==
    mlog.since =>
        /\ \A i \in 1 .. Len(mlog.closes) : mlog.closes[i] = Pow3(i)
        /\ modem.pdp_threshold = Pow3(Len(mlog.closes) + 1)
        /\ modem.pdp_failures <= modem.pdp_threshold

FailedOpen ==
    (mlog'.op = "cellular_pdp_request" /\ mlog'.open = "fail") =>
        /\ modem'.pdp_failures = modem.pdp_failures + 1
        /\ mlog'.ret = -1

C31_PdpBackoff == []ClosesAtPowers /\ [][FailedOpen]_vars

C31_Witness ==
    /\ mlog.since /\ mlog.op = "cellular_pdp_request" /\ mlog.open = "fail"
    /\ mlog.closes = <<3, 9, 27>>
    /\ modem.pdp_failures = 28

(***************************************************************************)
(* C32: after a successful socket connect of a driver that goes through    *)
(* cellular_pdp_request, the backoff is reset: pdp_failures is 0 and       *)
(* pdp_threshold is 3.                                                     *)
(***************************************************************************)
ConnectSucceeded ==
    /\ mlog.op \in {"sim800_socket_connect", "sara_socket_connect"}
    /\ mlog.ret = 0

C32_SuccessResetsBackoff ==
    ConnectSucceeded =>
        /\ modem.pdp_failures = 0
        /\ modem.pdp_threshold = PDP_RETRY_THRESHOLD_INITIAL

(***************************************************************************)
(* C33: whenever the open flag is true the UART handle is not null, also   *)
(* after an at_open that fails on a channel that is already open.          *)
(***************************************************************************)
C33_OpenImpliesUart == flags.open => xUART # NoUart

(***************************************************************************)
(* C34: at_close does not release the UART while the reader task is inside *)
(* a read on it, with busy set; once at_close has returned the reader task *)
(* reads nothing from the handle until the port is opened again.           *)
(***************************************************************************)
CloseReleases == kpc = "close_rel" /\ kpc' # "close_rel"

C34_CloseWaitsForReader ==
    [][CloseReleases => (~flags.busy /\ rpc # "read")]_vars

(***************************************************************************)
(* C35: at_free deletes neither the reader task nor the response semaphore *)
(* while a command is blocked in its wait on that semaphore.               *)
(***************************************************************************)
FreeDeletes ==
    \/ kpc = "free_task" /\ kpc' = "free_sem"
    \/ kpc = "free_sem" /\ kpc' = "freed"

C35_FreeWaitsForWaiter ==
    [][FreeDeletes => \A c \in Callers : pc[c] # "take"]_vars

(***************************************************************************)
(* C36: the waiting flag is true only while a command is between its       *)
(* transmission and its return: with every command returned, by response,  *)
(* timeout or closed port, waiting is false.                               *)
(***************************************************************************)
C36_WaitingOnlyInFlight ==
    (\A c \in Callers : pc[c] \in {"idle", "ret"}) => ~flags.waiting

(***************************************************************************)
(* C37: once a command has returned the parser is not armed for a response *)
(* any more: until the next command arms it, a line that arrives is not    *)
(* collected and handle_response is not called.                            *)
(***************************************************************************)
C37_ReturnDisarms ==
    (\A c \in Callers : pc[c] \in {"idle", "ret"}) => pstate = "Idle"


\* C38: the sim800 and the m6315 default scanner store into socket_status[k]
\* only for 0 <= k < NSOCKETS, whatever "<digit>, <status>" line they are
\* given.
C38_ScannerWritesInRange ==
    slog.op = "scan_line" => slog.k < NSOCKETS(ops)

\* C39: when socket_close(connid) has returned for a connid of the array,
\* the socket's status is UNKNOWN, whether the close command was answered
\* with OK, with an error text or not at all.
C39_CloseFreesSlot ==
    (slog.op = "socket_close" /\ slog.k >= 0 /\ slog.k < NSOCKETS(ops))
        => socks.socket_status[slog.k] = SOCKET_STATUS_UNKNOWN


\* C40: the receive scanners of the sim7020 and the me3616 drivers call a
\* line Final only when the +CM2MCLIRECV / +M2MCLIRECV header was seen
\* earlier during the same command; what the scanner remembers of an earlier
\* receive command does not reach a later one.
C40_FinalNeedsHeader ==
    recv.type = AT_RESPONSE_FINAL => recv.hdr

=========================================================================
